---- MODULE Spec2Model ----
(***************************************************************************)
(* pavo: the config store (src/config.rs, src/pavo.rs) and the TUI session *)
(* (src/tui/app.rs, src/tui/event.rs, src/tui/runner.rs).                  *)
(*                                                                         *)
(* Strings are sequences of one-character strings, a path is the sequence  *)
(* of its normal components, a timestamp is a number of seconds.           *)
(***************************************************************************)
EXTENDS Integers, Sequences, FiniteSets, TLC

VARIABLES config, file, now, exists, app, pc, last, failures, opened

vars == <<config, file, now, exists, app, pc, last, failures, opened>>

(***************************************************************************)
(* Bounds of the model                                                     *)
(***************************************************************************)
\* the clock runs from 0 to MaxTime
MaxTime == 2
\* access_count is driven up to MaxCount
MaxCount == 1
\* at most MaxIoFailures writes of pavo.toml fail in one run
MaxIoFailures == 1

(***************************************************************************)
(* The filesystem                                                          *)
(***************************************************************************)
PathWP == << <<"w">>, <<"p">> >>
PathHP == << <<"h">>, <<"p">> >>
PathLink == << <<"l">> >>

\* canonical paths that may exist on disk
CanonPaths == {PathWP, PathHP}

\* what a caller may type: a canonical path, or a symlink to PathWP
RawPaths == CanonPaths \cup {PathLink}

\* tags the store operations are called with
TagPool == { <<"x">> }

\* tag lists set_tags is called with
TagLists == { <<>>, << <<"x">> >> }

\* max_unselected_time values a loaded configuration carries
MaxAges == {1, 2}

\* Path::canonicalize: symlinks resolved; an error when the target is missing
Resolve(raw) == IF raw = PathLink THEN PathWP ELSE raw

canonicalize(raw, fs) ==
    IF Resolve(raw) \in fs
    THEN [ok |-> TRUE, path |-> Resolve(raw)]
    ELSE [ok |-> FALSE, path |-> raw]

(***************************************************************************)
(* Config (src/config.rs)                                                  *)
(***************************************************************************)
\* the tags and the access count a new entry starts with
NewTags == <<>>

NewAccessCount == 0

ConfigPath(path, t, persist) ==
    [path |-> path, last_selected |-> t, persist |-> persist,
     tags |-> NewTags, access_count |-> NewAccessCount]

DefaultConfig(maxAge) ==
    [paths |-> <<>>, auto_clean |-> TRUE, max_unselected_time |-> maxAge]

\* iter().position(|p| p.path == path), 1-based, 0 when absent
FindIdx(paths, path) ==
    IF \E i \in 1..Len(paths) : paths[i].path = path
    THEN CHOOSE i \in 1..Len(paths) :
            /\ paths[i].path = path
            /\ \A j \in 1..(i - 1) : paths[j].path # path
    ELSE 0

contains(c, path) == \E i \in 1..Len(c.paths) : c.paths[i].path = path

\* add_path without the check for a registered path
Config_add_path_nodup(c, path, persist, t, fs) ==
    IF path \notin fs
    THEN [config |-> c, result |-> "NotFound"]
    ELSE [config |-> [c EXCEPT !.paths = Append(@, ConfigPath(path, t, persist))],
          result |-> "Ok"]

\* add_path pushing the entry before it checks for a registered path
Config_add_path_pushfirst(c, path, persist, t, fs) ==
    IF path \notin fs
    THEN [config |-> c, result |-> "NotFound"]
    ELSE [config |-> [c EXCEPT !.paths = Append(@, ConfigPath(path, t, persist))],
          result |-> IF \E i \in 1..Len(c.paths) : c.paths[i].path = path
                     THEN "Duplicate" ELSE "Ok"]

\* add_path inserting the entry in front of the list
Config_add_path_front(c, path, persist, t, fs) ==
    IF path \notin fs
    THEN [config |-> c, result |-> "NotFound"]
    ELSE IF \E i \in 1..Len(c.paths) : c.paths[i].path = path
    THEN [config |-> c, result |-> "Duplicate"]
    ELSE [config |-> [c EXCEPT !.paths = <<ConfigPath(path, t, persist)>> \o @],
          result |-> "Ok"]

\* Config::add_path: [config, result]
Config_add_path(c, path, persist, t, fs) ==
    IF path \notin fs
    THEN [config |-> c, result |-> "NotFound"]
    ELSE IF \E i \in 1..Len(c.paths) : c.paths[i].path = path
    THEN [config |-> c, result |-> "Duplicate"]
    ELSE [config |-> [c EXCEPT !.paths = Append(@, ConfigPath(path, t, persist))],
          result |-> "Ok"]

\* removal by index that skips the entry following a removed one
RECURSIVE RemoveSkipping(_, _)
RemoveSkipping(paths, fs) ==
    IF paths = <<>> THEN <<>>
    ELSE IF (Head(paths).path \in fs) \/ Head(paths).persist
    THEN <<Head(paths)>> \o RemoveSkipping(Tail(paths), fs)
    ELSE IF Len(paths) = 1 THEN <<>>
    ELSE <<paths[2]>> \o RemoveSkipping(Tail(Tail(paths)), fs)

remove_nonexistent_paths_skip(c, fs) ==
    [c EXCEPT !.paths = RemoveSkipping(@, fs)]

remove_nonexistent_paths(c, fs) ==
    LET keep(cp) == (cp.path \in fs) \/ cp.persist
    IN [c EXCEPT !.paths = SelectSeq(@, keep)]

\* the age pass without the exemption of persisted entries
remove_old_paths_nopersist(c, t) ==
    LET keep(cp) == t - cp.last_selected < c.max_unselected_time
    IN [c EXCEPT !.paths = SelectSeq(@, keep)]

remove_old_paths(c, t) ==
    LET keep(cp) == cp.persist \/ (t - cp.last_selected < c.max_unselected_time)
    IN [c EXCEPT !.paths = SelectSeq(@, keep)]

\* toml::to_string_pretty: the document written to pavo.toml
Serialize(c) ==
    [paths |-> c.paths, auto_clean |-> c.auto_clean,
     max_unselected_time |-> c.max_unselected_time]

\* Duration::days(7).num_seconds()
SevenDays == 604800

\* impl Default for Config
Config_default == DefaultConfig(SevenDays)

\* the file pavo.toml does not exist
NoFile == [missing |-> TRUE]

\* the file before anything was loaded from it
NoConfig == [loaded |-> FALSE]

Fields == {"paths", "auto_clean", "max_unselected_time"}

\* toml::from_str::<Config>: a document is a function from the top-level
\* keys it holds to their values; #[serde(default)] on a field gives a
\* missing key the Default of the field's type
toml_from_str(doc) ==
    [paths |-> IF "paths" \in DOMAIN doc THEN doc["paths"] ELSE <<>>,
     auto_clean |-> IF "auto_clean" \in DOMAIN doc THEN doc["auto_clean"] ELSE FALSE,
     max_unselected_time |-> IF "max_unselected_time" \in DOMAIN doc
                             THEN doc["max_unselected_time"] ELSE 0]

(***************************************************************************)
(* Pavo (src/pavo.rs): p is [config, file]; the result adds the outcome    *)
(***************************************************************************)
\* Config::save as used by every mutator: io is whether the write succeeds
Save(c, f, io) ==
    IF io THEN [config |-> c, file |-> Serialize(c), result |-> "Ok"]
    ELSE [config |-> c, file |-> f, result |-> "Io"]

\* Config::new: the default configuration is written when there is no file,
\* the file is parsed otherwise
Config_new(f, io) ==
    IF f = NoFile
    THEN IF io THEN Save(Config_default, f, io)
         ELSE [config |-> NoConfig, file |-> f, result |-> "Io"]
    ELSE [config |-> toml_from_str(f), file |-> f, result |-> "Ok"]

Unchanged(p, result) == [config |-> p.config, file |-> p.file, result |-> result]

Pavo_add_path(p, raw, persist, t, fs, io) ==
    LET canon == canonicalize(raw, fs)
    IN IF ~canon.ok THEN Unchanged(p, "NotFound")
       ELSE LET r == Config_add_path(p.config, canon.path, persist, t, fs)
            IN IF r.result # "Ok"
               THEN [config |-> r.config, file |-> p.file, result |-> r.result]
               ELSE Save(r.config, p.file, io)

Pavo_clean(p, t, fs, io) ==
    Save(remove_old_paths(remove_nonexistent_paths(p.config, fs), t), p.file, io)

\* update_last_selected that leaves last_selected alone
Pavo_update_last_selected_count(p, path, t, io) ==
    LET i == FindIdx(p.config.paths, path)
    IN IF i = 0 THEN Unchanged(p, "Ok")
       ELSE Save([p.config EXCEPT !.paths[i].access_count = @ + 1], p.file, io)

Pavo_update_last_selected(p, path, t, io) ==
    LET i == FindIdx(p.config.paths, path)
    IN IF i = 0 THEN Unchanged(p, "Ok")
       ELSE Save([p.config EXCEPT !.paths[i].last_selected = t,
                                  !.paths[i].access_count = @ + 1],
                 p.file, io)

\* toggle_persist that sets the flag
Pavo_toggle_persist_on(p, path, io) ==
    LET i == FindIdx(p.config.paths, path)
    IN IF i = 0 THEN Unchanged(p, "Ok")
       ELSE Save([p.config EXCEPT !.paths[i].persist = TRUE], p.file, io)

Pavo_toggle_persist(p, path, io) ==
    LET i == FindIdx(p.config.paths, path)
    IN IF i = 0 THEN Unchanged(p, "Ok")
       ELSE Save([p.config EXCEPT !.paths[i].persist = ~@], p.file, io)

Pavo_set_persist(p, path, persist, io) ==
    LET i == FindIdx(p.config.paths, path)
    IN IF i = 0 THEN Unchanged(p, "Ok")
       ELSE Save([p.config EXCEPT !.paths[i].persist = persist], p.file, io)

\* add_tag that pushes the tag whether or not the entry has it
Pavo_add_tag_push(p, path, tag, io) ==
    LET i == FindIdx(p.config.paths, path)
    IN IF i = 0 THEN Unchanged(p, "Ok")
       ELSE Save([p.config EXCEPT !.paths[i].tags = Append(@, tag)], p.file, io)

Pavo_add_tag(p, path, tag, io) ==
    LET i == FindIdx(p.config.paths, path)
    IN IF i = 0 THEN Unchanged(p, "Ok")
       ELSE IF \E k \in 1..Len(p.config.paths[i].tags) : p.config.paths[i].tags[k] = tag
       THEN Unchanged(p, "Ok")
       ELSE Save([p.config EXCEPT !.paths[i].tags = Append(@, tag)], p.file, io)

\* remove_tag that saves also when the path is not tracked
Pavo_remove_tag_save(p, path, tag, io) ==
    LET i == FindIdx(p.config.paths, path)
        keep(t) == t # tag
    IN IF i = 0 THEN Save(p.config, p.file, io)
       ELSE Save([p.config EXCEPT !.paths[i].tags = SelectSeq(@, keep)], p.file, io)

Pavo_remove_tag(p, path, tag, io) ==
    LET i == FindIdx(p.config.paths, path)
        keep(t) == t # tag
    IN IF i = 0 THEN Unchanged(p, "Ok")
       ELSE Save([p.config EXCEPT !.paths[i].tags = SelectSeq(@, keep)], p.file, io)

Pavo_set_tags(p, path, tags, io) ==
    LET i == FindIdx(p.config.paths, path)
    IN IF i = 0 THEN Unchanged(p, "Ok")
       ELSE Save([p.config EXCEPT !.paths[i].tags = tags], p.file, io)

(***************************************************************************)
(* Display labels (src/path_display.rs)                                    *)
(***************************************************************************)
RECURSIVE JoinWith(_, _)
\* Vec<String>::join(sep)
JoinWith(strs, sep) ==
    IF strs = <<>> THEN <<>>
    ELSE IF Len(strs) = 1 THEN strs[1]
    ELSE strs[1] \o sep \o JoinWith(Tail(strs), sep)

\* the last depth components of a path, or all of them, joined with "/"
DisplayAt(path, depth) ==
    IF depth >= Len(path) THEN JoinWith(path, <<"/">>)
    ELSE JoinWith(SubSeq(path, Len(path) - depth + 1, Len(path)), <<"/">>)

\* a round in which one group of equal labels sends every path deeper
DepthRound_all(paths, required, depth) ==
    [i \in 1..Len(paths) |->
        IF /\ required[i] <= depth
           /\ \E k, j \in 1..Len(paths) :
                 /\ j # k
                 /\ required[k] <= depth
                 /\ required[j] <= depth
                 /\ DisplayAt(paths[j], depth) = DisplayAt(paths[k], depth)
           /\ depth < Len(paths[i])
        THEN depth + 1
        ELSE required[i]]

\* a round in which equal paths do not count as a group
DepthRound_distinct(paths, required, depth) ==
    [i \in 1..Len(paths) |->
        IF /\ required[i] <= depth
           /\ \E j \in 1..Len(paths) :
                 /\ paths[j] # paths[i]
                 /\ required[j] <= depth
                 /\ DisplayAt(paths[j], depth) = DisplayAt(paths[i], depth)
           /\ depth < Len(paths[i])
        THEN depth + 1
        ELSE required[i]]

\* one round of the depth loop: the members of a group of equal labels that
\* have more components need one more
DepthRound(paths, required, depth) ==
    [i \in 1..Len(paths) |->
        IF /\ required[i] <= depth
           /\ \E j \in 1..Len(paths) :
                 /\ j # i
                 /\ required[j] <= depth
                 /\ DisplayAt(paths[j], depth) = DisplayAt(paths[i], depth)
           /\ depth < Len(paths[i])
        THEN depth + 1
        ELSE required[i]]

RECURSIVE DepthLoop(_, _, _, _)
DepthLoop(paths, required, depth, max_depth) ==
    IF depth > max_depth THEN required
    ELSE DepthLoop(paths, DepthRound(paths, required, depth), depth + 1, max_depth)

MaxOf(S) == IF S = {} THEN 0 ELSE CHOOSE m \in S : \A x \in S : x <= m

\* labels without the depth loop: the last component of every path
compute_display_paths_leaf(paths) ==
    IF paths = <<>> THEN <<>>
    ELSE [i \in 1..Len(paths) |-> DisplayAt(paths[i], 1)]

compute_display_paths(paths) ==
    IF paths = <<>> THEN <<>>
    ELSE LET max_depth == MaxOf({ Len(paths[i]) : i \in 1..Len(paths) })
             required == DepthLoop(paths, [i \in 1..Len(paths) |-> 1], 1, max_depth)
         IN [i \in 1..Len(paths) |-> DisplayAt(paths[i], required[i])]

(***************************************************************************)
(* App (src/tui/app.rs).  selected and the cursors count from 0 as in the  *)
(* code; the entries of filtered_indices hold the 1-based index into paths *)
(* and the 0-based offsets of the matched characters.                      *)
(***************************************************************************)
NoPath == <<>>

RECURSIVE MatchFrom(_, _, _)
\* the offsets at which the characters of query occur, in order, in label
\* from offset from on; <<-1>> when they do not
MatchFrom(label, query, from) ==
    IF query = <<>> THEN <<>>
    ELSE IF from >= Len(label) THEN <<-1>>
    ELSE IF label[from + 1] = Head(query)
         THEN LET rest == MatchFrom(label, Tail(query), from + 1)
              IN IF rest = <<-1>> THEN <<-1>> ELSE <<from>> \o rest
         ELSE MatchFrom(label, query, from + 1)

\* SkimMatcherV2::fuzzy_indices: the query matches as a subsequence
fuzzy_indices(label, query) ==
    LET m == MatchFrom(label, query, 0)
    IN [some |-> m # <<-1>>, indices |-> m]

update_preview(a) ==
    [a EXCEPT !.preview = IF a.selected < Len(a.filtered_indices)
                          THEN a.paths[a.filtered_indices[a.selected + 1].idx]
                          ELSE NoPath,
              !.preview_scroll = 0]

\* filter_paths without the reset of the selection
filter_paths_keep(a) ==
    LET n == Len(a.paths)
        all == [i \in 1..n |-> [idx |-> i, pos |-> <<>>]]
        hit(e) == fuzzy_indices(a.display_paths[e.idx], a.input).some
        withpos == [i \in 1..n |->
                      [idx |-> i,
                       pos |-> fuzzy_indices(a.display_paths[i], a.input).indices]]
        filtered == IF a.input = <<>> THEN all ELSE SelectSeq(withpos, hit)
    IN update_preview([a EXCEPT !.filtered_indices = filtered])

\* filter_paths that lists the matches at the start of a label first
filter_paths_ranked(a) ==
    LET n == Len(a.paths)
        all == [i \in 1..n |-> [idx |-> i, pos |-> <<>>]]
        hit(e) == fuzzy_indices(a.display_paths[e.idx], a.input).some
        withpos == [i \in 1..n |->
                      [idx |-> i,
                       pos |-> fuzzy_indices(a.display_paths[i], a.input).indices]]
        best(e) == e.pos[1] = 0
        rest(e) == e.pos[1] # 0
        hits == SelectSeq(withpos, hit)
        filtered == IF a.input = <<>> THEN all
                    ELSE SelectSeq(hits, best) \o SelectSeq(hits, rest)
    IN update_preview([a EXCEPT !.filtered_indices = filtered, !.selected = 0])

\* filter_paths that matches the empty query like any other
filter_paths_match(a) ==
    LET n == Len(a.paths)
        hit(e) == e.pos # <<>>
        withpos == [i \in 1..n |->
                      [idx |-> i,
                       pos |-> fuzzy_indices(a.display_paths[i], a.input).indices]]
    IN update_preview([a EXCEPT !.filtered_indices = SelectSeq(withpos, hit),
                                !.selected = 0])

filter_paths(a) ==
    LET n == Len(a.paths)
        all == [i \in 1..n |-> [idx |-> i, pos |-> <<>>]]
        hit(e) == fuzzy_indices(a.display_paths[e.idx], a.input).some
        withpos == [i \in 1..n |->
                      [idx |-> i,
                       pos |-> fuzzy_indices(a.display_paths[i], a.input).indices]]
        filtered == IF a.input = <<>> THEN all ELSE SelectSeq(withpos, hit)
    IN update_preview([a EXCEPT !.filtered_indices = filtered, !.selected = 0])

App_new(paths, tag_filter) ==
    [paths |-> paths,
     display_paths |-> compute_display_paths(paths),
     filtered_indices |-> [i \in 1..Len(paths) |-> [idx |-> i, pos |-> <<>>]],
     selected |-> 0,
     input |-> <<>>,
     input_cursor |-> 0,
     should_quit |-> FALSE,
     selected_path |-> NoPath,
     preview |-> IF paths # <<>> THEN paths[1] ELSE NoPath,
     preview_scroll |-> 0,
     focused_panel |-> "Search",
     show_modal |-> FALSE,
     modal_persist_value |-> FALSE,
     modal_tags_input |-> <<>>,
     modal_tags_cursor |-> 0,
     tag_filter |-> tag_filter,
     modal_focus |-> "Persist",
     modal_original_persist |-> FALSE,
     modal_original_tags |-> <<>>]

\* select_next that moves on an empty list too
select_next_unguarded(a) ==
    IF a.filtered_indices # <<>>
    THEN update_preview([a EXCEPT !.selected = (a.selected + 1) % Len(a.filtered_indices)])
    ELSE [a EXCEPT !.selected = a.selected + 1]

select_next(a) ==
    IF a.filtered_indices # <<>>
    THEN update_preview([a EXCEPT !.selected = (a.selected + 1) % Len(a.filtered_indices)])
    ELSE a

\* select_previous that stops at the first row
select_previous_stop(a) ==
    IF a.filtered_indices # <<>>
    THEN update_preview([a EXCEPT !.selected = IF a.selected = 0 THEN 0
                                               ELSE a.selected - 1])
    ELSE a

select_previous(a) ==
    IF a.filtered_indices # <<>>
    THEN update_preview([a EXCEPT !.selected = IF a.selected = 0
                                               THEN Len(a.filtered_indices) - 1
                                               ELSE a.selected - 1])
    ELSE a

\* confirm_selection that reads the list of paths at the selected row
confirm_selection_row(a) ==
    IF a.selected < Len(a.filtered_indices)
    THEN [a EXCEPT !.selected_path = a.paths[a.selected + 1],
                   !.should_quit = TRUE]
    ELSE a

confirm_selection(a) ==
    IF a.selected < Len(a.filtered_indices)
    THEN [a EXCEPT !.selected_path = a.paths[a.filtered_indices[a.selected + 1].idx],
                   !.should_quit = TRUE]
    ELSE a

\* the loop of add_char: c goes in front of the character at the cursor, or
\* at the end when the cursor is at or past the end
InsertAt(str, cursor, c) ==
    IF cursor >= Len(str) THEN Append(str, c)
    ELSE SubSeq(str, 1, cursor) \o <<c>> \o SubSeq(str, cursor + 1, Len(str))

\* the loop of delete_char: the character at offset cursor - 1 is left out
DeleteBefore(str, cursor) ==
    IF cursor - 1 < Len(str)
    THEN SubSeq(str, 1, cursor - 1) \o SubSeq(str, cursor + 1, Len(str))
    ELSE str

\* add_char without the call of filter_paths
add_char_stale(a, c) ==
    [a EXCEPT !.input = InsertAt(a.input, a.input_cursor, c),
              !.input_cursor = a.input_cursor + 1]

add_char(a, c) ==
    filter_paths([a EXCEPT !.input = InsertAt(a.input, a.input_cursor, c),
                           !.input_cursor = a.input_cursor + 1])

delete_char(a) ==
    IF a.input_cursor > 0
    THEN filter_paths([a EXCEPT !.input = DeleteBefore(a.input, a.input_cursor),
                                !.input_cursor = a.input_cursor - 1])
    ELSE a

\* quit that takes the selected row with it
quit_selected(a) ==
    [a EXCEPT !.should_quit = TRUE,
              !.selected_path = IF a.selected < Len(a.filtered_indices)
                                THEN a.paths[a.filtered_indices[a.selected + 1].idx]
                                ELSE NoPath]

quit(a) == [a EXCEPT !.should_quit = TRUE]

move_cursor_left(a) ==
    IF a.input_cursor > 0 THEN [a EXCEPT !.input_cursor = @ - 1] ELSE a

move_cursor_right(a) ==
    IF a.input_cursor < Len(a.input) THEN [a EXCEPT !.input_cursor = @ + 1] ELSE a

\* FocusedPanel::next and FocusedPanel::previous (src/tui/focus.rs)
FocusedPanel_next(panel) ==
    CASE panel = "Search" -> "Paths"
      [] panel = "Paths" -> "Preview"
      [] panel = "Preview" -> "Search"

\* previous that goes the way of next from Paths
FocusedPanel_previous_stuck(panel) ==
    CASE panel = "Search" -> "Preview"
      [] panel = "Paths" -> "Preview"
      [] panel = "Preview" -> "Paths"

FocusedPanel_previous(panel) ==
    CASE panel = "Search" -> "Preview"
      [] panel = "Paths" -> "Search"
      [] panel = "Preview" -> "Paths"

\* ModalFocus::next (src/tui/focus.rs)
ModalFocus_next_stuck(focus) == "Tags"

ModalFocus_next(focus) == IF focus = "Persist" THEN "Tags" ELSE "Persist"

focus_next_panel(a) == [a EXCEPT !.focused_panel = FocusedPanel_next(@)]

focus_previous_panel(a) == [a EXCEPT !.focused_panel = FocusedPanel_previous(@)]

scroll_preview_up(a) ==
    IF a.preview_scroll > 0 THEN [a EXCEPT !.preview_scroll = @ - 1] ELSE a

\* preview_scroll is a u16
U16_MAX == 65535

\* preview_scroll += 1 where the addition does not check for overflow
scroll_preview_down(a) == [a EXCEPT !.preview_scroll = (@ + 1) % (U16_MAX + 1)]

\* preview_scroll += 1 panics in a build that checks for overflow
scroll_preview_down_overflows(a) == a.preview_scroll = U16_MAX

\* open_modal that does not take the snapshot of the seeded values
open_modal_nosnapshot(a, c) ==
    IF a.selected < Len(a.filtered_indices)
    THEN LET path == a.paths[a.filtered_indices[a.selected + 1].idx]
             i == FindIdx(c.paths, path)
             text == IF i # 0 THEN JoinWith(c.paths[i].tags, <<",", " ">>) ELSE <<>>
             persist == IF i # 0 THEN c.paths[i].persist ELSE FALSE
         IN [a EXCEPT !.modal_persist_value = persist,
                      !.modal_tags_input = text,
                      !.modal_tags_cursor = Len(text),
                      !.show_modal = TRUE]
    ELSE a

open_modal(a, c) ==
    IF a.selected < Len(a.filtered_indices)
    THEN LET path == a.paths[a.filtered_indices[a.selected + 1].idx]
             i == FindIdx(c.paths, path)
             text == IF i # 0 THEN JoinWith(c.paths[i].tags, <<",", " ">>) ELSE <<>>
             persist == IF i # 0 THEN c.paths[i].persist ELSE FALSE
         IN [a EXCEPT !.modal_persist_value = persist,
                      !.modal_tags_input = text,
                      !.modal_tags_cursor = Len(text),
                      !.modal_original_persist = persist,
                      !.modal_original_tags = text,
                      !.show_modal = TRUE]
    ELSE a

close_modal_stuck(a) == a

close_modal(a) == [a EXCEPT !.show_modal = FALSE]

toggle_modal_persist(a) == [a EXCEPT !.modal_persist_value = ~@]

RECURSIVE Split(_, _)
\* str::split(sep): the pieces between the separators, empty ones included
Split(str, sep) ==
    IF \E i \in 1..Len(str) : str[i] = sep
    THEN LET i == CHOOSE k \in 1..Len(str) :
                     str[k] = sep /\ \A j \in 1..(k - 1) : str[j] # sep
         IN <<SubSeq(str, 1, i - 1)>> \o Split(SubSeq(str, i + 1, Len(str)), sep)
    ELSE <<str>>

RECURSIVE Trim(_)
\* str::trim: white space removed at both ends
Trim(str) ==
    IF str = <<>> THEN str
    ELSE IF Head(str) = " " THEN Trim(Tail(str))
    ELSE IF str[Len(str)] = " " THEN Trim(SubSeq(str, 1, Len(str) - 1))
    ELSE str

\* ParseTags without the trim
ParseTags_notrim(text) ==
    LET pieces == Split(text, ",")
        nonempty(t) == t # <<>>
    IN SelectSeq(pieces, nonempty)

ParseTags(text) ==
    LET pieces == Split(text, ",")
        trimmed == [i \in 1..Len(pieces) |-> Trim(pieces[i])]
        nonempty(t) == t # <<>>
    IN SelectSeq(trimmed, nonempty)

\* confirm_modal that takes the whole draft as one tag
confirm_modal_unsplit(a) ==
    IF a.selected < Len(a.filtered_indices)
    THEN [some |-> TRUE, idx |-> a.filtered_indices[a.selected + 1].idx,
          persist |-> a.modal_persist_value, tags |-> <<a.modal_tags_input>>]
    ELSE [some |-> FALSE, idx |-> 0, persist |-> FALSE, tags |-> <<>>]

confirm_modal(a) ==
    IF a.selected < Len(a.filtered_indices)
    THEN [some |-> TRUE, idx |-> a.filtered_indices[a.selected + 1].idx,
          persist |-> a.modal_persist_value, tags |-> ParseTags(a.modal_tags_input)]
    ELSE [some |-> FALSE, idx |-> 0, persist |-> FALSE, tags |-> <<>>]

add_char_to_modal_tags(a, c) ==
    [a EXCEPT !.modal_tags_input = InsertAt(a.modal_tags_input, a.modal_tags_cursor, c),
              !.modal_tags_cursor = a.modal_tags_cursor + 1]

delete_char_from_modal_tags(a) ==
    IF a.modal_tags_cursor > 0
    THEN [a EXCEPT !.modal_tags_input = DeleteBefore(a.modal_tags_input, a.modal_tags_cursor),
                   !.modal_tags_cursor = a.modal_tags_cursor - 1]
    ELSE a

modal_focus_next_panel(a) ==
    focus_next_panel([a EXCEPT !.modal_focus = ModalFocus_next(@)])

modal_focus_next(a) == [a EXCEPT !.modal_focus = ModalFocus_next(@)]

move_modal_cursor_left(a) ==
    IF a.modal_tags_cursor > 0 THEN [a EXCEPT !.modal_tags_cursor = @ - 1] ELSE a

move_modal_cursor_right(a) ==
    IF a.modal_tags_cursor < Len(a.modal_tags_input)
    THEN [a EXCEPT !.modal_tags_cursor = @ + 1]
    ELSE a

cancel_modal(a) ==
    [a EXCEPT !.modal_persist_value = a.modal_original_persist,
              !.modal_tags_input = a.modal_original_tags]

(***************************************************************************)
(* Events (src/tui/event.rs).  A key is [code, ch, ctrl]; the result of a  *)
(* handler is [app, config, file, result].                                 *)
(***************************************************************************)
Key(code) == [code |-> code, ch |-> "", ctrl |-> FALSE]

CharKey(c) == [code |-> "Char", ch |-> c, ctrl |-> FALSE]

CtrlKey(c) == [code |-> "Char", ch |-> c, ctrl |-> TRUE]

Handled(a, p, result) ==
    [app |-> a, config |-> p.config, file |-> p.file, result |-> result]

\* the Enter arm: set_persist, then set_tags, each returning early on error
ConfirmArm(a, p, io1, io2) ==
    LET m == confirm_modal(a)
    IN IF ~m.some THEN Handled(close_modal(a), p, "Ok")
       ELSE LET path == a.paths[m.idx]
                r1 == Pavo_set_persist(p, path, m.persist, io1)
                r2 == Pavo_set_tags(r1, path, m.tags, io2)
            IN IF r1.result # "Ok" THEN Handled(a, r1, r1.result)
               ELSE IF r2.result # "Ok" THEN Handled(a, r2, r2.result)
               ELSE Handled(close_modal(a), r2, "Ok")

\* the Esc arm applying the drafts as the Enter arm does
CancelArm_apply(a, p) == ConfirmArm(a, p, TRUE, TRUE)

CancelArm_quit(a, p) == Handled(quit(close_modal(cancel_modal(a))), p, "Ok")

\* the Esc arm
CancelArm(a, p) == Handled(close_modal(cancel_modal(a)), p, "Ok")

handle_modal_event(a, p, key, io1, io2) ==
    CASE key.code = "Enter" -> ConfirmArm(a, p, io1, io2)
      [] key.code = "Esc" -> CancelArm(a, p)
      [] key.code = "Tab" -> Handled(modal_focus_next(a), p, "Ok")
      [] key.code \in {"Up", "Down"} \/ (key.code = "Char" /\ key.ch = " ") ->
            Handled(IF a.modal_focus = "Persist" THEN toggle_modal_persist(a) ELSE a, p, "Ok")
      [] key.code = "Backspace" ->
            Handled(IF a.modal_focus = "Tags" THEN delete_char_from_modal_tags(a) ELSE a,
                    p, "Ok")
      [] key.code = "Left" ->
            Handled(IF a.modal_focus = "Tags" THEN move_modal_cursor_left(a) ELSE a, p, "Ok")
      [] key.code = "Right" ->
            Handled(IF a.modal_focus = "Tags" THEN move_modal_cursor_right(a) ELSE a, p, "Ok")
      [] key.code = "Char" /\ key.ch # " " ->
            Handled(IF a.modal_focus = "Tags" THEN add_char_to_modal_tags(a, key.ch) ELSE a,
                    p, "Ok")
      [] OTHER -> Handled(a, p, "Ok")

\* handle_normal_event that moves the cursor of the query in Paths too
handle_normal_event_paths(a, c, key) ==
    CASE (key.code = "Char" /\ key.ch = "c" /\ key.ctrl) \/ key.code = "Esc" -> quit(a)
      [] key.code = "Tab" /\ ~key.ctrl -> focus_next_panel(a)
      [] key.code = "BackTab" -> focus_previous_panel(a)
      [] key.code = "Enter" ->
            (CASE a.focused_panel = "Search" -> confirm_selection(a)
               [] a.focused_panel = "Paths" -> open_modal(a, c)
               [] a.focused_panel = "Preview" -> a)
      [] key.code = "Down" \/ (key.code = "Char" /\ key.ch = "n" /\ key.ctrl) ->
            IF a.focused_panel \in {"Search", "Paths"} THEN select_next(a)
            ELSE scroll_preview_down(a)
      [] key.code = "Up" \/ (key.code = "Char" /\ key.ch = "p" /\ key.ctrl) ->
            IF a.focused_panel \in {"Search", "Paths"} THEN select_previous(a)
            ELSE scroll_preview_up(a)
      [] key.code = "Backspace" ->
            IF a.focused_panel = "Search" THEN delete_char(a) ELSE a
      [] key.code = "Left" ->
            IF a.focused_panel # "Preview" THEN move_cursor_left(a) ELSE a
      [] key.code = "Right" ->
            IF a.focused_panel = "Search" THEN move_cursor_right(a) ELSE a
      [] key.code = "Char" /\ ~key.ctrl ->
            IF a.focused_panel = "Search" THEN add_char(a, key.ch) ELSE a
      [] OTHER -> a

handle_normal_event(a, c, key) ==
    CASE (key.code = "Char" /\ key.ch = "c" /\ key.ctrl) \/ key.code = "Esc" -> quit(a)
      [] key.code = "Tab" /\ ~key.ctrl -> focus_next_panel(a)
      [] key.code = "BackTab" -> focus_previous_panel(a)
      [] key.code = "Enter" ->
            (CASE a.focused_panel = "Search" -> confirm_selection(a)
               [] a.focused_panel = "Paths" -> open_modal(a, c)
               [] a.focused_panel = "Preview" -> a)
      [] key.code = "Down" \/ (key.code = "Char" /\ key.ch = "n" /\ key.ctrl) ->
            IF a.focused_panel \in {"Search", "Paths"} THEN select_next(a)
            ELSE scroll_preview_down(a)
      [] key.code = "Up" \/ (key.code = "Char" /\ key.ch = "p" /\ key.ctrl) ->
            IF a.focused_panel \in {"Search", "Paths"} THEN select_previous(a)
            ELSE scroll_preview_up(a)
      [] key.code = "Backspace" ->
            IF a.focused_panel = "Search" THEN delete_char(a) ELSE a
      [] key.code = "Left" ->
            IF a.focused_panel = "Search" THEN move_cursor_left(a) ELSE a
      [] key.code = "Right" ->
            IF a.focused_panel = "Search" THEN move_cursor_right(a) ELSE a
      [] key.code = "Char" /\ ~key.ctrl ->
            IF a.focused_panel = "Search" THEN add_char(a, key.ch) ELSE a
      [] OTHER -> a

\* the key reaches scroll_preview_down and the addition overflows
ScrollPanics(a, key) ==
    /\ ~a.show_modal
    /\ key.code = "Down" \/ (key.code = "Char" /\ key.ch = "n" /\ key.ctrl)
    /\ a.focused_panel = "Preview"
    /\ scroll_preview_down_overflows(a)

\* overflow_checks: whether the build checks arithmetic for overflow
handle_event(a, p, key, io1, io2, overflow_checks) ==
    IF a.show_modal THEN handle_modal_event(a, p, key, io1, io2)
    ELSE IF overflow_checks /\ ScrollPanics(a, key) THEN Handled(a, p, "Panic")
    ELSE Handled(handle_normal_event(a, p.config, key), p, "Ok")

(***************************************************************************)
(* The store driven through its API                                        *)
(***************************************************************************)
pavo == [config |-> config, file |-> file]

NoApp == [show_modal |-> FALSE]

\* The last store operation: its name and outcome.  After a run
\* of clean it also tells whether the clock advanced (ticked) or a path
\* appeared or disappeared (fschanged) since that run, and again tells that
\* the run followed another run of clean with neither in between.
Op(name, result) ==
    [op |-> name, result |-> result,
     ticked |-> FALSE, fschanged |-> FALSE,
     again |-> name = "clean" /\ last.op = "clean"
                 /\ ~last.ticked /\ ~last.fschanged]

Apply(r, name) ==
    /\ config' = r.config
    /\ file' = r.file
    /\ failures' = IF r.result = "Io" THEN failures + 1 ELSE failures
    /\ last' = Op(name, r.result)
    /\ UNCHANGED <<now, exists, app, pc, opened>>

\* a write may fail while the budget of failures lasts
IoOutcomes == IF failures < MaxIoFailures THEN BOOLEAN ELSE {TRUE}

\* Pavo::new on a configuration that tracks nothing yet
InitStore(ages) ==
    /\ \E m \in ages : config = DefaultConfig(m)
    /\ file = Serialize(config)
    /\ now = 0
    /\ exists \in SUBSET CanonPaths
    /\ app = NoApp
    /\ pc = "api"
    /\ failures = 0
    /\ opened = 0
    /\ last = [op |-> "new", result |-> "Ok",
               ticked |-> FALSE, fschanged |-> FALSE, again |-> FALSE]

AddPath(raw, persist, io) ==
    /\ pc = "api"
    /\ Apply(Pavo_add_path(pavo, raw, persist, now, exists, io), "add")

Clean(io) ==
    /\ pc = "api"
    /\ Apply(Pavo_clean(pavo, now, exists, io), "clean")

\* update_last_selected while every access_count is below max
UpdateUpTo(path, io, max) ==
    /\ pc = "api"
    /\ \A i \in 1..Len(config.paths) : config.paths[i].access_count < max
    /\ Apply(Pavo_update_last_selected(pavo, path, now, io),
             "update_last_selected")

UpdateLastSelected(path, io) == UpdateUpTo(path, io, MaxCount)

TogglePersist(path, io) ==
    /\ pc = "api"
    /\ Apply(Pavo_toggle_persist(pavo, path, io), "toggle_persist")

SetPersist(path, persist, io) ==
    /\ pc = "api"
    /\ Apply(Pavo_set_persist(pavo, path, persist, io), "set_persist")

AddTag(path, tag, io) ==
    /\ pc = "api"
    /\ Apply(Pavo_add_tag(pavo, path, tag, io), "add_tag")

RemoveTag(path, tag, io) ==
    /\ pc = "api"
    /\ Apply(Pavo_remove_tag(pavo, path, tag, io), "remove_tag")

SetTags(path, tags, io) ==
    /\ pc = "api"
    /\ Apply(Pavo_set_tags(pavo, path, tags, io), "set_tags")

\* the environment: the clock advances, paths appear and disappear
Tick ==
    /\ pc = "api"
    /\ now < MaxTime
    /\ now' = now + 1
    /\ last' = IF last.op = "clean" THEN [last EXCEPT !.ticked = TRUE] ELSE last
    /\ UNCHANGED <<config, file, exists, app, pc, failures, opened>>

FsCreate(path) ==
    /\ pc = "api"
    /\ path \notin exists
    /\ exists' = exists \cup {path}
    /\ last' = IF last.op = "clean" THEN [last EXCEPT !.fschanged = TRUE] ELSE last
    /\ UNCHANGED <<config, file, now, app, pc, failures, opened>>

FsRemove(path) ==
    /\ pc = "api"
    /\ path \in exists
    /\ exists' = exists \ {path}
    /\ last' = IF last.op = "clean" THEN [last EXCEPT !.fschanged = TRUE] ELSE last
    /\ UNCHANGED <<config, file, now, app, pc, failures, opened>>

\* every operation of the store, in any order, at one reading of the clock
Init == InitStore({1})

Next ==
    \/ \E raw \in RawPaths, persist \in BOOLEAN, io \in IoOutcomes : AddPath(raw, persist, io)
    \/ \E io \in IoOutcomes : Clean(io)
    \/ \E path \in CanonPaths, io \in IoOutcomes : UpdateLastSelected(path, io)
    \/ \E path \in CanonPaths, io \in IoOutcomes : TogglePersist(path, io)
    \/ \E path \in CanonPaths, persist \in BOOLEAN, io \in IoOutcomes : SetPersist(path, persist, io)
    \/ \E path \in CanonPaths, tag \in TagPool, io \in IoOutcomes : AddTag(path, tag, io)
    \/ \E path \in CanonPaths, tag \in TagPool, io \in IoOutcomes : RemoveTag(path, tag, io)
    \/ \E path \in CanonPaths, tags \in TagLists, io \in IoOutcomes : SetTags(path, tags, io)
    \/ \E path \in CanonPaths : FsCreate(path)
    \/ \E path \in CanonPaths : FsRemove(path)

Spec == Init /\ [][Next]_vars

\* pruning: entries are added, persisted and pruned while the clock runs and
\* paths come and go; every write of pavo.toml succeeds
InitPrune == InitStore(MaxAges)

NextPrune ==
    \/ \E raw \in RawPaths, persist \in BOOLEAN : AddPath(raw, persist, TRUE)
    \/ Clean(TRUE)
    \/ \E path \in CanonPaths : TogglePersist(path, TRUE)
    \/ Tick
    \/ \E path \in CanonPaths : FsCreate(path)
    \/ \E path \in CanonPaths : FsRemove(path)

SpecPrune == InitPrune /\ [][NextPrune]_vars

\* use: entries are added, tagged and selected again and again while the
\* clock runs; no path appears or disappears
MaxUses == 2          \* access_count is driven up to MaxUses

NextUse ==
    \/ \E path \in CanonPaths, persist \in BOOLEAN : AddPath(path, persist, TRUE)
    \/ \E path \in CanonPaths, io \in IoOutcomes : UpdateUpTo(path, io, MaxUses)
    \/ \E path \in CanonPaths, tag \in TagPool : AddTag(path, tag, TRUE)
    \/ Tick

SpecUse == Init /\ [][NextUse]_vars

(***************************************************************************)
(* A TUI session (src/tui/runner.rs): the list is a snapshot taken at the  *)
(* start, every key goes through handle_event until should_quit, and a     *)
(* confirmed selection is recorded on the way out.                         *)
(***************************************************************************)
PathC == << <<"c">> >>

SessionNow == 1

Entry(path, t, persist, tags, count) ==
    [path |-> path, last_selected |-> t, persist |-> persist,
     tags |-> tags, access_count |-> count]

NoFilter == [some |-> FALSE, tag |-> <<>>]

TagFilter(tag) == [some |-> TRUE, tag |-> tag]

get_paths_by_tag(c, tag) ==
    LET tagged(cp) == \E i \in 1..Len(cp.tags) : cp.tags[i] = tag
    IN SelectSeq(c.paths, tagged)

\* the comparator of the sort in run_tui: TRUE when a goes before b
\* the comparator with ties broken by the older selection
Before_oldest(a, b) ==
    \/ a.access_count > b.access_count
    \/ a.access_count = b.access_count /\ a.last_selected < b.last_selected

Before(a, b) ==
    \/ a.access_count > b.access_count
    \/ a.access_count = b.access_count /\ a.last_selected > b.last_selected

RECURSIVE SortEntries(_)
\* Vec::sort_by is stable: an entry goes behind the earlier entries it is
\* not before
SortEntries(entries) ==
    IF entries = <<>> THEN <<>>
    ELSE LET n == Len(entries)
             x == entries[n]
             sorted == SortEntries(SubSeq(entries, 1, n - 1))
             ahead(e) == ~Before(x, e)
             behind(e) == Before(x, e)
         IN SelectSeq(sorted, ahead) \o <<x>> \o SelectSeq(sorted, behind)

SessionPaths(c, tag_filter) ==
    LET entries == IF tag_filter.some THEN get_paths_by_tag(c, tag_filter.tag)
                   ELSE c.paths
        sorted == SortEntries(entries)
    IN [i \in 1..Len(sorted) |-> sorted[i].path]

InitSession(stores, filters) ==
    /\ \E c \in stores : config = c
    /\ file = Serialize(config)
    /\ now = SessionNow
    /\ exists = { config.paths[i].path : i \in 1..Len(config.paths) }
    /\ \E tf \in filters : app = App_new(SessionPaths(config, tf), tf)
    /\ pc = "running"
    /\ failures = 0
    /\ opened = 0
    /\ last = [op |-> "start", result |-> "Ok", modal |-> FALSE]

\* a key is taken only while the texts and the scroll offset it produces
\* stay within the limits of the specification
WithinLimits(a, b, lim) ==
    /\ Len(b.input) > Len(a.input) => Len(b.input) <= lim.query
    /\ (a.show_modal /\ Len(b.modal_tags_input) > Len(a.modal_tags_input))
          => Len(b.modal_tags_input) <= lim.draft
    /\ (b.show_modal /\ ~a.show_modal) => opened < lim.modals
    /\ b.preview_scroll > a.preview_scroll => b.preview_scroll <= lim.scroll

\* one turn of the loop; the build is a choice only where it changes what the
\* key does
Event(key, io1, io2, lim) ==
    /\ pc = "running"
    /\ ~app.should_quit
    /\ \E overflow_checks \in { b \in BOOLEAN : b => ScrollPanics(app, key) } :
          LET r == handle_event(app, pavo, key, io1, io2, overflow_checks)
          IN /\ WithinLimits(app, r.app, lim)
             /\ app' = r.app
             /\ config' = r.config
             /\ file' = r.file
             /\ failures' = IF r.result = "Io" THEN failures + 1 ELSE failures
             /\ pc' = IF r.result = "Ok" THEN "running" ELSE "aborted"
             /\ opened' = IF r.app.show_modal /\ ~app.show_modal THEN opened + 1 ELSE opened
             /\ last' = [op |-> key.code, result |-> r.result, modal |-> app.show_modal]
    /\ UNCHANGED <<now, exists>>

PressEnter(io1, io2, lim) == Event(Key("Enter"), io1, io2, lim)

PressEsc(lim) == Event(Key("Esc"), TRUE, TRUE, lim)

PressTab(lim) == Event(Key("Tab"), TRUE, TRUE, lim)

PressBackTab(lim) == Event(Key("BackTab"), TRUE, TRUE, lim)

PressUp(lim) == Event(Key("Up"), TRUE, TRUE, lim)

PressDown(lim) == Event(Key("Down"), TRUE, TRUE, lim)

PressBackspace(lim) == Event(Key("Backspace"), TRUE, TRUE, lim)

PressLeft(lim) == Event(Key("Left"), TRUE, TRUE, lim)

PressRight(lim) == Event(Key("Right"), TRUE, TRUE, lim)

PressChar(c, lim) == Event(CharKey(c), TRUE, TRUE, lim)

PressCtrl(c, lim) == Event(CtrlKey(c), TRUE, TRUE, lim)

\* the end of the session with a second update_last_selected
Finish_twice(io) ==
    /\ pc = "running"
    /\ app.should_quit
    /\ LET q == IF app.selected_path # NoPath
                THEN Pavo_update_last_selected(pavo, app.selected_path, now, TRUE)
                ELSE Unchanged(pavo, "Ok")
           r == IF app.selected_path # NoPath
                THEN Pavo_update_last_selected(q, app.selected_path, now, io)
                ELSE Unchanged(pavo, "Ok")
       IN /\ config' = r.config
          /\ file' = r.file
          /\ failures' = IF r.result = "Io" THEN failures + 1 ELSE failures
          /\ pc' = IF r.result = "Ok" THEN "returned" ELSE "aborted"
          /\ last' = [op |-> "finish", result |-> r.result, modal |-> FALSE]
    /\ UNCHANGED <<now, exists, app, opened>>

\* after the loop: if let Some(path) = app.selected_path()
Finish(io) ==
    /\ pc = "running"
    /\ app.should_quit
    /\ LET r == IF app.selected_path # NoPath
                THEN Pavo_update_last_selected(pavo, app.selected_path, now, io)
                ELSE Unchanged(pavo, "Ok")
       IN /\ config' = r.config
          /\ file' = r.file
          /\ failures' = IF r.result = "Io" THEN failures + 1 ELSE failures
          /\ pc' = IF r.result = "Ok" THEN "returned" ELSE "aborted"
          /\ last' = [op |-> "finish", result |-> r.result, modal |-> FALSE]
    /\ UNCHANGED <<now, exists, app, opened>>

PlainChars == {"c", ","}

CtrlChars == {"c"}

NextSession(lim) ==
    \/ \E io1 \in IoOutcomes, io2 \in IoOutcomes : PressEnter(io1, io2, lim)
    \/ PressEsc(lim)
    \/ PressTab(lim)
    \/ PressBackTab(lim)
    \/ PressUp(lim)
    \/ PressDown(lim)
    \/ PressBackspace(lim)
    \/ PressLeft(lim)
    \/ PressRight(lim)
    \/ \E c \in PlainChars : PressChar(c, lim)
    \/ \E c \in CtrlChars : PressCtrl(c, lim)
    \/ \E io \in IoOutcomes : Finish(io)

TagC == <<"c">>

TagX == <<"x">>

Stored(entries) ==
    [paths |-> entries, auto_clean |-> TRUE, max_unselected_time |-> SessionNow]

\* Navigation: three entries whose order in the list differs from their
\* order in the store, or no entry; all entries or those tagged c.
MaxQuery == 1         \* the query is typed up to MaxQuery characters
MaxScroll == 1        \* the preview is scrolled down to MaxScroll
NavDraft == 0         \* the tags draft is typed up to NavDraft characters
NavModals == 0        \* the modal is opened up to NavModals times

TuiStores ==
    { Stored(<< Entry(PathWP, 0, FALSE, <<>>, 0),
                Entry(PathHP, 1, FALSE, <<TagC>>, 1),
                Entry(PathC, 0, TRUE, <<TagC>>, 1) >>),
      Stored(<<>>) }

TuiLimits ==
    [query |-> MaxQuery, scroll |-> MaxScroll, draft |-> NavDraft, modals |-> NavModals]

InitTui == InitSession(TuiStores, {NoFilter, TagFilter(TagC)})

NextTui == NextSession(TuiLimits)

SpecTui == InitTui /\ [][NextTui]_vars

\* The modal: two entries, one not persisted with two tags, one persisted
\* with none.  The query is not typed and the preview is not scrolled.
MaxDraft == 1         \* the tags draft is typed up to MaxDraft characters
MaxModals == 1        \* the modal is opened up to MaxModals times

ModalStores ==
    { Stored(<< Entry(PathWP, 0, FALSE, <<TagC, TagX>>, 0),
                Entry(PathHP, 1, TRUE, <<>>, 1) >>) }

ModalLimits ==
    [query |-> 0, scroll |-> 0, draft |-> MaxDraft, modals |-> MaxModals]

InitModal == InitSession(ModalStores, {NoFilter})

NextModal == NextSession(ModalLimits)

SpecModal == InitModal /\ [][NextModal]_vars

\* Typing tags: one entry with one tag; the modal is opened on it and its
\* tags draft is edited.  The query is not typed and the preview is not
\* scrolled.
MaxTyped == 3         \* the tags draft is typed up to MaxTyped characters

DraftStores == { Stored(<< Entry(PathWP, 0, FALSE, <<TagC>>, 0) >>) }

DraftLimits == [query |-> 0, scroll |-> 0, draft |-> MaxTyped, modals |-> MaxModals]

InitDraft == InitSession(DraftStores, {NoFilter})

NextDraft == NextSession(DraftLimits)

SpecDraft == InitDraft /\ [][NextDraft]_vars

\* Tagging: entries are added and their tags set, added and removed, with
\* two tags to choose from.
TagY == <<"y">>

TwoTags == {TagX, TagY}

TwoTagLists == { <<>>, <<TagY>>, <<TagX, TagY>> }

NextTags ==
    \/ \E path \in CanonPaths : AddPath(path, FALSE, TRUE)
    \/ \E path \in CanonPaths, tag \in TwoTags, io \in IoOutcomes : AddTag(path, tag, io)
    \/ \E path \in CanonPaths, tag \in TwoTags, io \in IoOutcomes : RemoveTag(path, tag, io)
    \/ \E path \in CanonPaths, tags \in TwoTagLists, io \in IoOutcomes : SetTags(path, tags, io)

SpecTags == Init /\ [][NextTags]_vars

\* Labels: the store is loaded with up to MaxPaths entries, the same path
\* more than once included, whose paths share trailing components; the list
\* is built and the query typed and deleted.
MaxPaths == 3         \* the store holds up to MaxPaths entries

SegA == <<"a">>

SegB == <<"b">>

LabelPaths ==
    { <<SegA>>, <<SegB>>, <<SegB, SegA>>, <<SegA, SegA>>,
      <<SegA, SegA, SegA>>, <<SegB, SegA, SegA>>, <<SegA, SegB, SegA>> }

LabelLists == UNION { [1..n -> LabelPaths] : n \in 0..MaxPaths }

LabelChars == {"a", "b"}

LabelLimits == [query |-> MaxQuery, scroll |-> 0, draft |-> 0, modals |-> 0]

InitLabels ==
    /\ \E paths \in LabelLists :
          config = Stored([i \in 1..Len(paths) |-> Entry(paths[i], 0, FALSE, <<>>, 0)])
    /\ file = Serialize(config)
    /\ now = SessionNow
    /\ exists = { config.paths[i].path : i \in 1..Len(config.paths) }
    /\ app = NoApp
    /\ pc = "start"
    /\ failures = 0
    /\ opened = 0
    /\ last = [op |-> "load", result |-> "Ok", modal |-> FALSE]

\* run_tui up to the event loop
StartSession ==
    /\ pc = "start"
    /\ app' = App_new(SessionPaths(config, NoFilter), NoFilter)
    /\ pc' = "running"
    /\ last' = [op |-> "start", result |-> "Ok", modal |-> FALSE]
    /\ UNCHANGED <<config, file, now, exists, failures, opened>>

NextLabels ==
    \/ StartSession
    \/ \E c \in LabelChars : PressChar(c, LabelLimits)
    \/ PressBackspace(LabelLimits)

SpecLabels == InitLabels /\ [][NextLabels]_vars

\* Filtering: four entries whose labels share characters, or no entry; the
\* query is typed, deleted and the cursor moved in it.
MaxPattern == 2       \* the query is typed up to MaxPattern characters

FilterStores ==
    { Stored(<< Entry(<<SegB, SegA>>, 0, FALSE, <<>>, 0),
                Entry(<<SegB>>, 0, FALSE, <<>>, 0),
                Entry(<<SegA, SegA>>, 0, FALSE, <<>>, 0),
                Entry(<<SegA, SegB>>, 0, FALSE, <<>>, 0) >>),
      Stored(<<>>) }

FilterChars == {"a", "b", "/"}

FilterLimits == [query |-> MaxPattern, scroll |-> 0, draft |-> 0, modals |-> 0]

InitFilter == InitSession(FilterStores, {NoFilter})

NextFilter ==
    \/ \E c \in FilterChars : PressChar(c, FilterLimits)
    \/ PressBackspace(FilterLimits)
    \/ PressLeft(FilterLimits)
    \/ PressRight(FilterLimits)

SpecFilter == InitFilter /\ [][NextFilter]_vars

\* Scrolling: one entry; the focus is moved and the preview scrolled as far
\* as its counter goes.
ScrollStores == { Stored(<< Entry(PathWP, 0, FALSE, <<>>, 0) >>) }

ScrollLimits == [query |-> 0, scroll |-> U16_MAX, draft |-> 0, modals |-> 0]

InitScroll == InitSession(ScrollStores, {NoFilter})

NextScroll ==
    \/ PressTab(ScrollLimits)
    \/ PressUp(ScrollLimits)
    \/ PressDown(ScrollLimits)

SpecScroll == InitScroll /\ [][NextScroll]_vars

\* Loading: the file is missing or holds any of the top-level keys; the
\* store is loaded from it and pruned.
Documents ==
    LET full == [paths : { <<>>, << ConfigPath(PathWP, 0, FALSE) >> },
                 auto_clean : BOOLEAN,
                 max_unselected_time : {1, SevenDays}]
    IN { [k \in keys |-> d[k]] : d \in full, keys \in SUBSET Fields }

InitLoad ==
    /\ file \in Documents \cup {NoFile}
    /\ config = NoConfig
    /\ now = 0
    /\ exists \in SUBSET {PathWP}
    /\ app = NoApp
    /\ pc = "load"
    /\ failures = 0
    /\ opened = 0
    /\ last = [op |-> "none", result |-> "Ok",
               ticked |-> FALSE, fschanged |-> FALSE, again |-> FALSE]

Load(io) ==
    /\ pc = "load"
    /\ LET r == Config_new(file, io)
       IN /\ config' = r.config
          /\ file' = r.file
          /\ failures' = IF r.result = "Io" THEN failures + 1 ELSE failures
          /\ pc' = IF r.result = "Ok" THEN "api" ELSE "aborted"
          /\ last' = Op("new", r.result)
    /\ UNCHANGED <<now, exists, app, opened>>

NextLoad ==
    \/ \E io \in IoOutcomes : Load(io)
    \/ \E io \in IoOutcomes : Clean(io)
    \/ Tick

SpecLoad == InitLoad /\ [][NextLoad]_vars

\* Opening the modal: an App built, as App::new allows, over a list that
\* holds the two paths of the store and one the store does not track.
OpenLists == { <<PathHP, PathWP>>, <<PathHP, PathC, PathWP>> }

OpenLimits == [query |-> 0, scroll |-> 0, draft |-> 0, modals |-> MaxModals]

InitOpen ==
    /\ config \in ModalStores
    /\ file = Serialize(config)
    /\ now = SessionNow
    /\ exists = { config.paths[i].path : i \in 1..Len(config.paths) } \cup {PathC}
    /\ \E paths \in OpenLists : app = App_new(paths, NoFilter)
    /\ pc = "running"
    /\ failures = 0
    /\ opened = 0
    /\ last = [op |-> "start", result |-> "Ok", modal |-> FALSE]

NextOpen == NextSession(OpenLimits)

SpecOpen == InitOpen /\ [][NextOpen]_vars

\* Cancelling: the stores and the filters of the navigation, the query typed
\* and the modal opened once, its tags draft no longer than the one tag it
\* is seeded with; Esc keeps being sent while the loop runs, and is
\* sent with the modal closed when the modal is closed again and again.
CancelLimits ==
    [query |-> MaxQuery, scroll |-> 0, draft |-> 1, modals |-> 1]

NextCancel == NextSession(CancelLimits)

SpecCancel ==
    /\ InitTui
    /\ [][NextCancel]_vars
    /\ WF_vars(PressEsc(CancelLimits))
    /\ SF_vars(PressEsc(CancelLimits) /\ ~app.show_modal)

\* Tags the store can hold: set_tags, add_tag and the file take any text as
\* a tag, so one entry carries up to two tags among a plain one, one with a
\* blank inside, one with a comma, one that starts with a blank and the
\* empty one.  The modal is opened on it, the persist draft is flipped and
\* the tags draft is not typed.
RoundTags ==
    { <<"c">>, <<"c", " ", "x">>, <<"c", ",", "x">>, <<" ", "c">>, <<>> }

RoundTagLists ==
    {<<>>} \cup { <<t>> : t \in RoundTags }
           \cup { <<t, u>> : t \in RoundTags, u \in RoundTags }

RoundStores ==
    { Stored(<< Entry(PathWP, 0, persist, tags, 0) >>) :
         persist \in BOOLEAN, tags \in RoundTagLists }

RoundLimits == [query |-> 0, scroll |-> 0, draft |-> 0, modals |-> MaxModals]

InitRound == InitSession(RoundStores, {NoFilter})

NextRound ==
    \/ \E io1 \in IoOutcomes, io2 \in IoOutcomes : PressEnter(io1, io2, RoundLimits)
    \/ PressEsc(RoundLimits)
    \/ PressTab(RoundLimits)
    \/ PressDown(RoundLimits)
    \/ \E io \in IoOutcomes : Finish(io)

SpecRound == InitRound /\ [][NextRound]_vars

\* The keys of the modal: one entry with one tag; the modal is opened on it
\* and every key the modal tells apart is pressed, the space among the
\* characters.
ModalChars == {"c", " "}

KeysLimits == [query |-> 0, scroll |-> 0, draft |-> MaxDraft, modals |-> MaxModals]

InitKeys == InitSession(DraftStores, {NoFilter})

NextKeys ==
    \/ PressEnter(TRUE, TRUE, KeysLimits)
    \/ PressEsc(KeysLimits)
    \/ PressTab(KeysLimits)
    \/ PressUp(KeysLimits)
    \/ PressDown(KeysLimits)
    \/ PressBackspace(KeysLimits)
    \/ PressLeft(KeysLimits)
    \/ PressRight(KeysLimits)
    \/ \E c \in ModalChars : PressChar(c, KeysLimits)
    \/ PressCtrl("c", KeysLimits)

SpecKeys == InitKeys /\ [][NextKeys]_vars

(***************************************************************************)
(* Properties of the store                                                 *)
(***************************************************************************)
\* the steps of the specifications that are a run of one operation
CleanStep == last'.op = "clean" /\ \E io \in BOOLEAN : Clean(io)

AddStep(raw, persist) == last'.op = "add" /\ \E io \in BOOLEAN : AddPath(raw, persist, io)

Entries(c) == { c.paths[i] : i \in 1..Len(c.paths) }

PathsOf(c) == { c.paths[i].path : i \in 1..Len(c.paths) }

\* C1: whatever operations ran, successful or failing, no two entries of the
\* store have the same path.
C1_UniquePaths ==
    \A i, j \in 1..Len(config.paths) :
        i # j => config.paths[i].path # config.paths[j].path

\* an add was refused as a duplicate while every canonical path is tracked
C1_Witness ==
    /\ last.op = "add" /\ last.result = "Duplicate"
    /\ Len(config.paths) = Cardinality(CanonPaths)

\* C2: prune keeps every persisted entry, whether or not its path exists and
\* whatever its age, and removes every entry that is not persisted and whose
\* path does not exist.
C2_PersistAbsolute ==
    [][CleanStep =>
        \A cp \in Entries(config) :
            /\ cp.persist => cp \in Entries(config')
            /\ (~cp.persist /\ cp.path \notin exists) => cp.path \notin PathsOf(config')
      ]_vars

\* prune has just kept a persisted entry whose path is gone and whose age is
\* past the limit, and left nothing else in the store
C2_Witness ==
    /\ last.op = "clean" /\ ~last.ticked /\ ~last.fschanged
    /\ Len(config.paths) = 1
    /\ config.paths[1].persist
    /\ config.paths[1].path \notin exists
    /\ now - config.paths[1].last_selected > config.max_unselected_time

\* C3: prune removes an entry that is not persisted and whose path exists
\* exactly when now - last_selected > max_unselected_time (an age equal to
\* the limit is kept).
C3_AgeRule ==
    [][CleanStep =>
        \A cp \in Entries(config) :
            (~cp.persist /\ cp.path \in exists) =>
                (cp \notin Entries(config')
                    <=> now - cp.last_selected > config.max_unselected_time)
      ]_vars

\* C4 as stated: two runs of prune with no other operation and the same
\* filesystem leave the same entries, whatever the clock did in between.
C4_IdempotentAnyClock ==
    [][(last.op = "clean" /\ ~last.fschanged /\ CleanStep)
        => config'.paths = config.paths]_vars

\* C4 amended: two runs of prune with no other operation, the same filesystem
\* and the same clock reading leave the same entries.
C4_IdempotentSameClock ==
    [][(last.op = "clean" /\ ~last.fschanged /\ ~last.ticked /\ CleanStep)
        => config'.paths = config.paths]_vars

\* prune ran twice in a row on the same filesystem at the same clock reading
\* and an entry survived both runs
C4_Witness ==
    /\ last.op = "clean" /\ last.again
    /\ Len(config.paths) >= 1

(***************************************************************************)
(* Properties of the session                                               *)
(***************************************************************************)
\* a step in which the open modal handles a key
ModalEvent == pc = "running" /\ ~app.should_quit /\ app.show_modal /\ last'.modal

ModalKey(code) == last'.op = code /\ ModalEvent

\* the path the modal edits
SelectedPath(a) == a.paths[a.filtered_indices[a.selected + 1].idx]

RECURSIVE Pieces(_, _)
\* the pieces of text between its commas, read character by character
Pieces(text, piece) ==
    IF text = <<>> THEN <<piece>>
    ELSE IF Head(text) = "," THEN <<piece>> \o Pieces(Tail(text), <<>>)
    ELSE Pieces(Tail(text), Append(piece, Head(text)))

\* a piece from its first to its last character that is no blank
Stripped(piece) ==
    LET solid == { i \in 1..Len(piece) : piece[i] # " " }
    IN IF solid = {} THEN <<>>
       ELSE SubSeq(piece, CHOOSE i \in solid : \A j \in solid : i <= j,
                          CHOOSE i \in solid : \A j \in solid : j <= i)

DraftTags(text) ==
    LET pieces == Pieces(text, <<>>)
        stripped == [i \in 1..Len(pieces) |-> Stripped(pieces[i])]
        nonempty(t) == t # <<>>
    IN SelectSeq(stripped, nonempty)

\* C5: cancelling the modal never touches the store.  From the opening of
\* the modal to its Esc the modal handles only keys other than Enter, so the
\* store at the Esc is the store at the opening if no such key changes the
\* entries or the file; and Esc closes the modal.
C5_CancelKeepsStore ==
    [][(last'.op # "Enter" /\ ModalEvent) =>
          /\ config' = config
          /\ file' = file
          /\ last'.op = "Esc" => ~app'.show_modal]_vars

\* an Esc that closed a modal into whose tags draft characters had been
\* typed: the cursor is left behind the end of the restored text
C5_Witness ==
    /\ last.op = "Esc" /\ last.modal
    /\ ~app.show_modal
    /\ app.modal_tags_cursor > Len(app.modal_tags_input)
    /\ Len(config.paths) = 2

\* C6: when the modal is closed with Enter and both writes succeed, the
\* selected entry has the persist draft as its flag and the pieces of the
\* tags draft between commas, trimmed, the empty ones dropped, as its tags;
\* every other entry is as it was and the modal is closed.
C6_ConfirmApplies ==
    [][(ModalKey("Enter") /\ last'.result = "Ok") =>
          LET k == FindIdx(config.paths, SelectedPath(app))
          IN /\ k # 0
             /\ config'.paths =
                   [config.paths EXCEPT ![k].persist = app.modal_persist_value,
                                        ![k].tags = DraftTags(app.modal_tags_input)]
             /\ ~app'.show_modal]_vars

\* a confirmation that changed the flag and stored the tags of a draft that
\* holds a comma and a blank
C6_Witness ==
    /\ last.op = "Enter" /\ last.modal /\ last.result = "Ok"
    /\ ~app.show_modal
    /\ app.modal_persist_value # app.modal_original_persist
    /\ app.modal_tags_input # app.modal_original_tags
    /\ \E i \in 1..Len(app.modal_tags_input) : app.modal_tags_input[i] = ","
    /\ \E i \in 1..Len(app.modal_tags_input) : app.modal_tags_input[i] = " "
    /\ \E k \in 1..Len(config.paths) :
          /\ config.paths[k].path = SelectedPath(app)
          /\ config.paths[k].persist = app.modal_persist_value
          /\ config.paths[k].tags = <<TagC>>

\* C7: when a write fails during the confirmation, the session aborts and
\* the selected entry has on disk the flag and the tags it had before the
\* confirmation.
C7_AllOrNothing ==
    [][(ModalKey("Enter") /\ last'.result # "Ok") =>
          LET k == FindIdx(file.paths, SelectedPath(app))
          IN /\ pc' = "aborted"
             /\ k # 0
             /\ file'.paths[k].persist = file.paths[k].persist
             /\ file'.paths[k].tags = file.paths[k].tags]_vars

\* C8: whenever the filtered list is not empty, selected is an index into it.
C8_SelectionValid ==
    app.filtered_indices # <<>> => app.selected < Len(app.filtered_indices)

\* a character typed into the query cut the list of three down to one
C8_Witness ==
    /\ last.op = "Char" /\ ~last.modal
    /\ app.input # <<>>
    /\ Len(app.paths) = 3
    /\ Len(app.filtered_indices) = 1
    /\ app.selected = 0

\* C9: add returns an error when the resolved path does not exist and when
\* its canonical form is already tracked; after either error the entries are
\* what they were and nothing was written.
C9_AddFailsWithoutEffect ==
    [][\A raw \in RawPaths, persist \in BOOLEAN :
         AddStep(raw, persist) =>
            /\ Resolve(raw) \notin exists => last'.result = "NotFound"
            /\ (Resolve(raw) \in exists /\ Resolve(raw) \in PathsOf(config))
                  => last'.result = "Duplicate"
            /\ last'.result \in {"NotFound", "Duplicate"}
                  => (config' = config /\ file' = file)
      ]_vars

\* add was refused for a missing path while the store tracked an entry
C9_Witness ==
    /\ last.op = "add" /\ last.result = "NotFound"
    /\ Len(config.paths) >= 1

\* C10: a successful add appends one entry after the existing ones, with
\* last_selected = now, access_count = 0, no tags and the persist flag of the
\* call; the other entries are untouched and the path is then contained.
C10_AddSuccess ==
    [][\A raw \in RawPaths, persist \in BOOLEAN :
         (AddStep(raw, persist) /\ last'.result = "Ok") =>
            /\ config'.paths =
                  Append(config.paths,
                         [path |-> Resolve(raw), last_selected |-> now,
                          persist |-> persist, tags |-> <<>>, access_count |-> 0])
            /\ contains(config', Resolve(raw))
      ]_vars

\* a persisted entry was added, under its canonical path, behind an
\* existing entry
C10_Witness ==
    /\ last.op = "add" /\ last.result = "Ok"
    /\ Len(config.paths) = 2
    /\ config.paths[2] = [path |-> PathWP, last_selected |-> now, persist |-> TRUE,
                           tags |-> <<>>, access_count |-> 0]

(***************************************************************************)
(* Properties of the mutators                                              *)
(***************************************************************************)
UpdateStep(path) ==
    last'.op = "update_last_selected" /\ \E io \in BOOLEAN : UpdateUpTo(path, io, MaxUses)

ToggleStep(path) ==
    last'.op = "toggle_persist" /\ \E io \in BOOLEAN : TogglePersist(path, io)

SetPersistStep(path, persist) ==
    last'.op = "set_persist" /\ \E io \in BOOLEAN : SetPersist(path, persist, io)

\* C11: every call of update_last_selected on a tracked path adds exactly 1
\* to the access_count of its entry and sets its last_selected to the time
\* of the call, which is not before the one it had; the entry's persist and
\* tags and every other entry stay as they were.  With the 0 a new entry
\* starts from, n calls in a row give n.
C11_Accumulates ==
    [][\A path \in CanonPaths :
         (UpdateStep(path) /\ path \in PathsOf(config)) =>
            LET i == FindIdx(config.paths, path)
            IN /\ config'.paths =
                     [config.paths EXCEPT ![i].access_count = @ + 1,
                                          ![i].last_selected = now]
               /\ config'.paths[i].last_selected >= config.paths[i].last_selected]_vars

\* an entry selected twice, the second time after the clock advanced, next
\* to a tagged entry that was never selected
C11_Witness ==
    /\ last.op = "update_last_selected"
    /\ now >= 1
    /\ \E i, j \in 1..Len(config.paths) :
          /\ config.paths[i].access_count = 2
          /\ config.paths[i].last_selected = now
          /\ config.paths[j].access_count = 0
          /\ config.paths[j].last_selected < now
          /\ config.paths[j].tags # <<>>

\* C12: on a tracked path toggle_persist negates the flag of the entry and
\* a second toggle_persist gives back the entries as they were;
\* set_persist(v) makes the flag v whatever it was; nothing but that flag
\* changes.
C12_ToggleInvolution ==
    [][\A path \in CanonPaths :
         path \in PathsOf(config) =>
            LET i == FindIdx(config.paths, path)
                after == [config |-> config', file |-> file']
            IN /\ ToggleStep(path) =>
                    /\ config'.paths = [config.paths EXCEPT ![i].persist = ~@]
                    /\ Pavo_toggle_persist(after, path, TRUE).config.paths = config.paths
               /\ \A v \in BOOLEAN :
                    SetPersistStep(path, v) =>
                       config'.paths = [config.paths EXCEPT ![i].persist = v]]_vars

\* a toggle that cleared the flag of one of two entries, the other tagged
C12_Witness ==
    /\ last.op = "toggle_persist" /\ last.result = "Ok"
    /\ Len(config.paths) = 2
    /\ ~config.paths[1].persist
    /\ config.paths[1].access_count = 1
    /\ config.paths[2].persist
    /\ config.paths[2].tags # <<>>

\* C13: no entry of the store holds the same tag twice.
C13_TagsSetLike ==
    \A i \in 1..Len(config.paths) :
       \A a, b \in 1..Len(config.paths[i].tags) :
          a # b => config.paths[i].tags[a] # config.paths[i].tags[b]

AddTagStep(path, tag) ==
    last'.op = "add_tag" /\ \E io \in BOOLEAN : AddTag(path, tag, io)

\* C14: add_tag of a tag the entry has leaves the store as it is; add_tag of
\* a tag it does not have puts the tag behind the tags it has and changes
\* nothing else.
C14_AddTagIdempotent ==
    [][\A path \in CanonPaths, tag \in TwoTags :
         (AddTagStep(path, tag) /\ path \in PathsOf(config)) =>
            LET i == FindIdx(config.paths, path)
                tags == config.paths[i].tags
            IN IF \E k \in 1..Len(tags) : tags[k] = tag
               THEN config' = config /\ file' = file
               ELSE config'.paths = [config.paths EXCEPT ![i].tags = tags \o <<tag>>]]_vars

\* x was added behind y, which no set_tags of the specification does
C14_Witness ==
    /\ last.op = "add_tag" /\ last.result = "Ok"
    /\ \E i \in 1..Len(config.paths) : config.paths[i].tags = <<TagY, TagX>>

Mutators ==
    {"update_last_selected", "toggle_persist", "set_persist", "set_tags", "add_tag",
     "remove_tag"}

MutatorStep(path) ==
    /\ last'.op \in Mutators
    /\ \E io \in BOOLEAN :
          \/ UpdateLastSelected(path, io)
          \/ TogglePersist(path, io)
          \/ \E persist \in BOOLEAN : SetPersist(path, persist, io)
          \/ \E tags \in TagLists : SetTags(path, tags, io)
          \/ \E tag \in TagPool : AddTag(path, tag, io) \/ RemoveTag(path, tag, io)

\* C15: each of the six mutators, called with a path that is no entry of the
\* store, returns success, leaves the entries as they are, adds none and
\* writes nothing.
C15_UntrackedNoOp ==
    [][\A path \in CanonPaths :
         (path \notin PathsOf(config) /\ MutatorStep(path)) =>
            /\ last'.result = "Ok"
            /\ config' = config
            /\ file' = file]_vars

\* set_tags returned from a store without entries while a path it could
\* have named exists
C15_Witness ==
    /\ last.op = "set_tags" /\ last.result = "Ok"
    /\ config.paths = <<>>
    /\ exists # {}

\* C16: when an operation of the store has returned success, the persisted
\* document is the store in memory.
C16_WriteThrough == last.result = "Ok" => file = Serialize(config)

(***************************************************************************)
(* Properties of the labels and of the filter                              *)
(***************************************************************************)
\* the last d components of a path, all of them when it has fewer
LastSegs(path, d) ==
    SubSeq(path, IF d >= Len(path) THEN 1 ELSE Len(path) - d + 1, Len(path))

Label(path, d) == JoinWith(LastSegs(path, d), <<"/">>)

Listed == pc = "running"

\* another path of the list has the same label at depth d
Collides(paths, i, d) ==
    \E j \in 1..Len(paths) : j # i /\ Label(paths[j], d) = Label(paths[i], d)

\* the smallest depth at which path i is alone, or its length
SettledDepth(paths, i) ==
    LET free == { d \in 1..Len(paths[i]) : ~Collides(paths, i, d) }
    IN IF free = {} THEN Len(paths[i])
       ELSE CHOOSE d \in free : \A e \in free : d <= e

\* C17: the labels are as many as the paths, the i-th label is made of
\* trailing components of the i-th path, and two paths with different
\* components have different labels.
C17_LabelsUnique ==
    Listed =>
       /\ Len(app.display_paths) = Len(app.paths)
       /\ \A i \in 1..Len(app.paths) :
             \E d \in 1..Len(app.paths[i]) : app.display_paths[i] = Label(app.paths[i], d)
       /\ \A i, j \in 1..Len(app.paths) :
             app.paths[i] # app.paths[j] => app.display_paths[i] # app.display_paths[j]

\* two different paths with the same last two components are listed
C17_Witness ==
    /\ Listed
    /\ \E i, j \in 1..Len(app.paths) :
          /\ app.paths[i] # app.paths[j]
          /\ Label(app.paths[i], 2) = Label(app.paths[j], 2)
          /\ app.display_paths[i] # app.display_paths[j]

\* C18: the label of a path is made of its last d components, d the smallest
\* depth at which no other path of the list has the same label, or of all its
\* components when it collides at every depth up to its length.
C18_LabelsMinimal ==
    Listed =>
       \A i \in 1..Len(app.paths) :
          app.display_paths[i] = Label(app.paths[i], SettledDepth(app.paths, i))

\* three paths collide on the last component, two of them on the last two:
\* the third has two components in its label and one left over
C18_Witness ==
    /\ Listed
    /\ \E i, j, k \in 1..Len(app.paths) :
          /\ Len(app.paths[i]) = 3
          /\ app.display_paths[i] = Label(app.paths[i], 2)
          /\ app.paths[j] # app.paths[k]
          /\ Label(app.paths[j], 2) = Label(app.paths[k], 2)
          /\ Label(app.paths[j], 1) = Label(app.paths[i], 1)
          /\ app.display_paths[j] = Label(app.paths[j], 3)

\* C19: two places of the list with the same path have the same label, all
\* components of the path, and the list of labels is as long as the list of
\* paths.
C19_SamePathFullLabel ==
    Listed =>
       /\ Len(app.display_paths) = Len(config.paths)
       /\ \A i, j \in 1..Len(app.paths) :
             (i # j /\ app.paths[i] = app.paths[j]) =>
                /\ app.display_paths[i] = JoinWith(app.paths[i], <<"/">>)
                /\ app.display_paths[j] = app.display_paths[i]

\* a path of three components is listed twice, next to another path
C19_Witness ==
    /\ Listed
    /\ \E i, j, k \in 1..Len(app.paths) :
          /\ i # j
          /\ app.paths[i] = app.paths[j]
          /\ Len(app.paths[i]) = 3
          /\ app.paths[k] # app.paths[i]
          /\ Len(app.display_paths[i]) = 5

\* C20: with the empty query the filtered list holds every index of the
\* list of paths, in increasing order, each without match positions.
C20_EmptyQueryAll ==
    (Listed /\ app.input = <<>>) =>
       app.filtered_indices = [i \in 1..Len(app.paths) |-> [idx |-> i, pos |-> <<>>]]

\* the last character of the query was deleted and the list is whole again
C20_Witness ==
    /\ Listed
    /\ last.op = "Backspace"
    /\ app.input = <<>>
    /\ Len(app.paths) >= 2
    /\ Len(app.filtered_indices) = Len(app.paths)

\* the characters of the query are found in the label, in their order
Occurs(label, query) ==
    \E at \in [1..Len(query) -> 1..Len(label)] :
       /\ \A k \in 1..Len(query) : label[at[k]] = query[k]
       /\ \A k \in 1..(Len(query) - 1) : at[k] < at[k + 1]

NormalEvent == pc = "running" /\ ~app.should_quit /\ ~app.show_modal /\ ~last'.modal

NormalKey(code) == last'.op = code /\ NormalEvent

\* C22 as stated: from every state with the modal closed and the focus in
\* Search, Enter ends the loop with the path of the selected row as result.
C22_EnterCommitsAlways ==
    [][(NormalKey("Enter") /\ app.focused_panel = "Search") =>
          /\ app'.should_quit
          /\ app.selected < Len(app.filtered_indices)
          /\ app'.selected_path = SelectedPath(app)]_vars

\* C22, amended: the same from the states in which the filtered list is not
\* empty.
C22_EnterCommits ==
    [][(NormalKey("Enter") /\ app.focused_panel = "Search"
          /\ app.filtered_indices # <<>>) =>
          /\ app'.should_quit
          /\ app'.selected_path = SelectedPath(app)
          /\ app'.selected_path # NoPath]_vars

\* Enter ended the loop on the only row a query left of three, which is not
\* the first path of the list
C22_Witness ==
    /\ last.op = "Enter" /\ ~last.modal
    /\ app.should_quit
    /\ app.input # <<>>
    /\ Len(app.paths) = 3
    /\ Len(app.filtered_indices) = 1
    /\ app.selected_path = SelectedPath(app)
    /\ app.selected_path # app.paths[1]

\* C30: with the modal closed and the focus in Preview, Up takes one from
\* preview_scroll unless it is 0, and Down adds exactly one to it whatever it
\* is, without failing; the selection, the filtered list and the query stay
\* as they are.
C30_ScrollByOne ==
    [][(NormalEvent /\ last'.op \in {"Up", "Down"} /\ app.focused_panel = "Preview") =>
          /\ last'.result = "Ok"
          /\ app'.preview_scroll =
                IF last'.op = "Down" THEN app.preview_scroll + 1
                ELSE IF app.preview_scroll = 0 THEN 0
                ELSE app.preview_scroll - 1
          /\ app'.selected = app.selected
          /\ app'.filtered_indices = app.filtered_indices
          /\ app'.input = app.input]_vars

\* Esc or Ctrl-C is pressed with the modal closed
QuitKey ==
    /\ last'.op \in {"Esc", "Char"}
    /\ NormalEvent
    /\ PressEsc(TuiLimits) \/ PressCtrl("c", TuiLimits)

\* C23: Esc and Ctrl-C with the modal closed end the loop, whatever panel has
\* the focus, with no selected path and the store as it was; the session
\* then returns without update_last_selected, the store and its file as they
\* were.
C23_QuitLeavesStore ==
    [][/\ QuitKey =>
            /\ app'.should_quit
            /\ app'.selected_path = NoPath
            /\ config' = config /\ file' = file
       /\ (last'.op = "finish" /\ app.selected_path = NoPath) =>
            /\ pc' = "returned"
            /\ config' = config /\ file' = file]_vars

\* the session returned without a selection after the focus was moved to the
\* preview and a row other than the first was selected
C23_Witness ==
    /\ pc = "returned" /\ last.op = "finish"
    /\ app.selected_path = NoPath
    /\ app.focused_panel = "Preview"
    /\ app.selected > 0
    /\ config \in TuiStores

\* the app after a key is pressed with the modal closed and nothing to write
After(a, code) == handle_normal_event(a, config, Key(code))

\* C24: with the modal closed Tab takes the focus from Search to Paths, from
\* Paths to Preview and from Preview to Search, and Shift-Tab the other way;
\* each undoes the other, three of either come back to the panel they left,
\* and neither changes anything but the focus.  The first panel is Search.
C24_PanelRotation ==
    [][/\ last.op = "start" => app.focused_panel = "Search"
       /\ (NormalEvent /\ last'.op \in {"Tab", "BackTab"}) =>
             /\ last'.op = "Tab" =>
                   app'.focused_panel =
                      CASE app.focused_panel = "Search" -> "Paths"
                        [] app.focused_panel = "Paths" -> "Preview"
                        [] app.focused_panel = "Preview" -> "Search"
             /\ last'.op = "BackTab" =>
                   app'.focused_panel =
                      CASE app.focused_panel = "Search" -> "Preview"
                        [] app.focused_panel = "Preview" -> "Paths"
                        [] app.focused_panel = "Paths" -> "Search"
             /\ app' = [app EXCEPT !.focused_panel = app'.focused_panel]
             /\ After(app', IF last'.op = "Tab" THEN "BackTab" ELSE "Tab") = app
             /\ After(After(app', last'.op), last'.op) = app
             /\ config' = config /\ file' = file]_vars

\* Shift-Tab was pressed in Search, with a row other than the first selected
C24_Witness ==
    /\ last.op = "BackTab" /\ ~last.modal
    /\ app.focused_panel = "Preview"
    /\ app.selected > 0
    /\ app.input = <<>>

RECURSIVE Pressed(_, _, _)
\* the app after a key is pressed k times
Pressed(a, code, k) == IF k = 0 THEN a ELSE Pressed(After(a, code), code, k - 1)

\* C25: with the modal closed, the focus in Search or Paths and n rows in the
\* filtered list, n > 0, Down selects row (selected + 1) mod n and Up row
\* (selected - 1) mod n; Up after Down comes back to the row, and so do n
\* Downs; the query and the filtered list stay as they are.
C25_CircularSelection ==
    [][(NormalEvent /\ last'.op \in {"Up", "Down"}
          /\ app.focused_panel \in {"Search", "Paths"}
          /\ app.filtered_indices # <<>>) =>
          LET n == Len(app.filtered_indices)
          IN /\ last'.op = "Down" => app'.selected = (app.selected + 1) % n
             /\ last'.op = "Up" => app'.selected = (app.selected + n - 1) % n
             /\ last'.op = "Down" => After(app', "Up").selected = app.selected
             /\ Pressed(app, "Down", n).selected = app.selected
             /\ app'.input = app.input
             /\ app'.filtered_indices = app.filtered_indices]_vars

\* Up was pressed on the first of three rows with the focus in Paths
C25_Witness ==
    /\ last.op = "Up" /\ ~last.modal
    /\ app.focused_panel = "Paths"
    /\ Len(app.filtered_indices) = 3
    /\ app.selected = 2

\* the rows the query leaves: all of them for the empty query, those whose
\* label holds the query otherwise
Matching(a, query) ==
    { i \in 1..Len(a.paths) : query = <<>> \/ Occurs(a.display_paths[i], query) }

\* C26: with the focus in Search, a key that changes the text of the query
\* leaves the filtered list that belongs to the new query, the first row
\* selected and the preview unscrolled, whatever row was selected before.
C26_EditResetsSelection ==
    [][(NormalEvent /\ last'.op \in {"Char", "Backspace"}
          /\ app.focused_panel = "Search"
          /\ app'.input # app.input) =>
          LET f == app'.filtered_indices
          IN /\ { f[k].idx : k \in 1..Len(f) } = Matching(app, app'.input)
             /\ \A k, l \in 1..Len(f) : k < l => f[k].idx < f[l].idx
             /\ app'.selected = 0
             /\ app'.preview_scroll = 0
             /\ app'.preview = IF f = <<>> THEN NoPath ELSE app.paths[f[1].idx]]_vars

\* a character that no label holds was typed: no row is left and the
\* preview is empty
C26_Witness ==
    /\ last.op = "Char" /\ ~last.modal
    /\ app.input # <<>>
    /\ Len(app.paths) = 3
    /\ app.filtered_indices = <<>>
    /\ app.preview = NoPath
    /\ app.selected = 0

\* C27: a store loaded from a document without the key auto_clean has
\* auto_clean = true, and one loaded from a document without the key
\* max_unselected_time has max_unselected_time = 604800, the values of a new
\* store.
C27_LoadDefaults ==
    [][(last'.op = "new" /\ last'.result = "Ok" /\ file # NoFile) =>
          /\ "auto_clean" \notin DOMAIN file =>
                config'.auto_clean = Config_default.auto_clean
          /\ "max_unselected_time" \notin DOMAIN file =>
                config'.max_unselected_time = Config_default.max_unselected_time]_vars

\* C28: a session that ends with the selected path P calls
\* update_last_selected(P) once, after the loop has ended, and returns with
\* the result written: the access_count of P is one more than when the
\* session started.  No key pressed during the session changes the
\* access_count or the last_selected of an entry.
C28_BumpAtReturn ==
    [][/\ (last'.op = "finish" /\ last'.result = "Ok" /\ app.selected_path # NoPath) =>
            LET i == FindIdx(config.paths, app.selected_path)
            IN /\ app.should_quit
               /\ pc' = "returned"
               /\ config'.paths = [config.paths EXCEPT ![i].access_count = @ + 1,
                                                       ![i].last_selected = now]
               /\ file' = Serialize(config')
               /\ \E c \in TuiStores : \E k \in 1..Len(c.paths) :
                     /\ c.paths[k].path = app.selected_path
                     /\ config'.paths[i].access_count = c.paths[k].access_count + 1
       /\ (pc = "running" /\ last'.op # "finish") =>
            /\ Len(config'.paths) = Len(config.paths)
            /\ \A i \in 1..Len(config.paths) :
                  /\ config'.paths[i].access_count = config.paths[i].access_count
                  /\ config'.paths[i].last_selected = config.paths[i].last_selected
       /\ pc # "running" => pc' = pc]_vars

\* the session returned the path a query had left; its access_count, 1 at
\* the start, is 2
C28_Witness ==
    /\ pc = "returned" /\ last.op = "finish"
    /\ app.selected_path = PathC
    /\ app.input # <<>>
    /\ \E i \in 1..Len(config.paths) :
          /\ config.paths[i].path = PathC
          /\ config.paths[i].access_count = 2
          /\ config.paths[i].last_selected = now
    /\ file = Serialize(config)

RECURSIVE CommaSpace(_)
\* the tags in their order with ", " between them
CommaSpace(tags) ==
    IF tags = <<>> THEN <<>>
    ELSE IF Len(tags) = 1 THEN tags[1]
    ELSE tags[1] \o <<",", " ">> \o CommaSpace(Tail(tags))

\* C29: Enter with the modal closed, the focus in Paths and a row selected
\* opens the modal; the persist draft and the tags draft are the persist flag
\* and the tags, joined with ", ", that the store holds for the path of the
\* row, or false and the empty text when the store does not track it; the
\* original values are the drafts, the cursor is behind the tags draft, and
\* the store is as it was.
C29_OpenSeedsDrafts ==
    [][(NormalKey("Enter") /\ app.focused_panel = "Paths"
          /\ app.filtered_indices # <<>>) =>
          LET i == FindIdx(config.paths, SelectedPath(app))
          IN /\ app'.show_modal
             /\ app'.modal_persist_value = IF i # 0 THEN config.paths[i].persist ELSE FALSE
             /\ app'.modal_tags_input =
                   IF i # 0 THEN CommaSpace(config.paths[i].tags) ELSE <<>>
             /\ app'.modal_original_persist = app'.modal_persist_value
             /\ app'.modal_original_tags = app'.modal_tags_input
             /\ app'.modal_tags_cursor = Len(app'.modal_tags_input)
             /\ config' = config /\ file' = file]_vars

\* the modal is open on the entry with two tags, unchanged since Enter
C29_Witness ==
    /\ last.op = "Enter" /\ ~last.modal
    /\ app.show_modal
    /\ app.modal_tags_input = <<"c", ",", " ", "x">>
    /\ app.modal_tags_cursor = 4
    /\ app.modal_original_tags = app.modal_tags_input

\* the modal is open on the path the store does not track
C29_WitnessUntracked ==
    /\ last.op = "Enter" /\ ~last.modal
    /\ app.show_modal
    /\ SelectedPath(app) \notin PathsOf(config)
    /\ app.modal_tags_input = <<>>

(***************************************************************************)
(* Properties of the keys with the modal open                              *)
(***************************************************************************)
\* text with c put in at offset at, at its end when at is beyond it
WithChar(text, at, c) ==
    LET k == IF at > Len(text) THEN Len(text) ELSE at
    IN SubSeq(text, 1, k) \o <<c>> \o SubSeq(text, k + 1, Len(text))

\* text without the character in front of offset at
WithoutChar(text, at) ==
    [i \in 1..(Len(text) - 1) |-> IF i < at THEN text[i] ELSE text[i + 1]]

\* C31: with the modal open and the focus in Tags, a printable character,
\* the space included, goes into the tags draft at the cursor and the cursor
\* moves one to the right; Backspace deletes the character left of the
\* cursor and does nothing at 0; Left and Right move the cursor by one
\* between 0 and the length; the persist draft stays as it is.
C31_TagsEditing ==
    [][(ModalEvent /\ app.modal_focus = "Tags"
          /\ last'.op \in {"Char", "Backspace", "Left", "Right"}) =>
          LET text == app.modal_tags_input
              at == app.modal_tags_cursor
          IN /\ \A c \in ModalChars :
                   PressChar(c, KeysLimits) =>
                      /\ app'.modal_tags_input = WithChar(text, at, c)
                      /\ app'.modal_tags_cursor = at + 1
             /\ last'.op = "Backspace" =>
                   IF at = 0 \/ at > Len(text)
                   THEN app'.modal_tags_input = text
                   ELSE /\ app'.modal_tags_input = WithoutChar(text, at)
                        /\ app'.modal_tags_cursor = at - 1
             /\ last'.op = "Left" =>
                   app'.modal_tags_cursor = IF at = 0 THEN 0 ELSE at - 1
             /\ last'.op = "Right" =>
                   app'.modal_tags_cursor = IF at >= Len(text) THEN at ELSE at + 1
             /\ app'.modal_persist_value = app.modal_persist_value]_vars

\* C32: with the modal open, Tab moves the field focus from Persist to Tags
\* and from Tags to Persist and changes nothing else; Up, Down and Space flip
\* the persist draft when the focus is Persist and leave it when the focus
\* is Tags; characters, Backspace, Left and Right leave the tags draft and
\* its cursor alone when the focus is Persist.
C32_ModalFieldFocus ==
    [][ModalEvent =>
          /\ last'.op = "Tab" =>
                /\ app' = [app EXCEPT !.modal_focus =
                             CASE app.modal_focus = "Persist" -> "Tags"
                               [] app.modal_focus = "Tags" -> "Persist"]
                /\ config' = config
                /\ file' = file
          /\ (last'.op \in {"Up", "Down"} \/ PressChar(" ", KeysLimits)) =>
                app'.modal_persist_value =
                   IF app.modal_focus = "Persist"
                   THEN ~app.modal_persist_value
                   ELSE app.modal_persist_value
          /\ (last'.op \in {"Char", "Backspace", "Left", "Right"}
                /\ app.modal_focus = "Persist") =>
                /\ app'.modal_tags_input = app.modal_tags_input
                /\ app'.modal_tags_cursor = app.modal_tags_cursor]_vars

\* the focus is back in Persist after two Tabs and the persist draft was
\* flipped there
C32_Witness ==
    /\ app.show_modal
    /\ last.modal
    /\ last.op = "Down"
    /\ app.modal_focus = "Persist"
    /\ app.modal_persist_value # app.modal_original_persist
    /\ app.modal_tags_input # app.modal_original_tags

\* the loop has ended or the session is over
Terminal(a, at) == a.should_quit \/ at # "running"

\* C33: no key received with the modal open ends the session: the loop goes
\* on with no selected path unless the store fails; Esc closes the modal
\* only, Ctrl-C does not end the loop, and Enter closes the modal without a
\* selection.  The loop ends only by a key received with the modal closed or
\* by an error of the store.
C33_NoExitInModal ==
    [][(pc = "running" /\ ~app.should_quit) =>
          /\ (app.show_modal /\ last'.result = "Ok") =>
                /\ ~Terminal(app', pc')
                /\ app'.selected_path = NoPath
                /\ last'.op \in {"Esc", "Enter"} => ~app'.show_modal
                /\ PressCtrl("c", OpenLimits) => app'.show_modal
          /\ Terminal(app', pc') =>
                \/ ~app.show_modal
                \/ pc' = "aborted" /\ last'.result # "Ok"]_vars

\* Esc was pressed with the modal open: the modal is closed and the loop
\* goes on
C33_Witness ==
    /\ last.op = "Esc"
    /\ last.modal
    /\ pc = "running"
    /\ ~app.show_modal
    /\ ~app.should_quit
    /\ app.selected_path = NoPath

\* the state of the navigator after Esc
AfterEsc(a) == handle_event(a, pavo, Key("Esc"), TRUE, TRUE, FALSE).app

C35_ModalIsolation ==
    [][ModalEvent =>
          LET i == FindIdx(config.paths, SelectedPath(app))
          IN /\ app'.focused_panel = app.focused_panel
             /\ app'.input = app.input
             /\ app'.input_cursor = app.input_cursor
             /\ app'.filtered_indices = app.filtered_indices
             /\ app'.selected = app.selected
             /\ app'.preview_scroll = app.preview_scroll
             /\ app'.paths = app.paths
             /\ app'.display_paths = app.display_paths
             /\ app.modal_original_persist =
                   (IF i # 0 THEN config.paths[i].persist ELSE FALSE)
             /\ app.modal_original_tags =
                   (IF i # 0 THEN CommaSpace(config.paths[i].tags) ELSE <<>>)
             /\ Len(config'.paths) = Len(config.paths)
             /\ \A k \in 1..Len(config.paths) :
                   k # i => config'.paths[k] = config.paths[k]]_vars

\* Enter in the modal opened on the second row wrote the persist flag of its
\* entry, the first entry of the store
C35_Witness ==
    /\ last.op = "Enter"
    /\ last.modal
    /\ last.result = "Ok"
    /\ ~app.show_modal
    /\ app.selected = 1
    /\ SelectedPath(app) = PathWP
    /\ config.paths[1].path = PathWP
    /\ config.paths[1].persist
    /\ config.paths[2] = Entry(PathHP, 1, TRUE, <<>>, 1)

\* C36: with the modal closed and the filtered list empty, Enter in Search
\* neither ends the loop nor sets a selected path, Enter in Paths does not
\* open the modal, Up and Down leave the selected row where it is, and the
\* store is not written.
C36_EnterOnEmptyList ==
    [][(last'.op \in {"Enter", "Up", "Down"} /\ NormalEvent
          /\ app.filtered_indices = <<>>) =>
          /\ (last'.op = "Enter" /\ app.focused_panel = "Search") =>
                /\ ~app'.should_quit
                /\ app'.selected_path = NoPath
                /\ pc' = "running"
          /\ (last'.op = "Enter" /\ app.focused_panel = "Paths") =>
                ~app'.show_modal
          /\ last'.op \in {"Up", "Down"} => app'.selected = app.selected
          /\ config' = config
          /\ file' = file]_vars

\* Enter was pressed in Search on a list that the query emptied
C36_Witness ==
    /\ last.op = "Enter"
    /\ ~last.modal
    /\ app.focused_panel = "Search"
    /\ app.paths # <<>>
    /\ app.input # <<>>
    /\ app.filtered_indices = <<>>
    /\ ~app.should_quit

\* Enter was pressed in Paths with no entry in the list
C36_WitnessNoEntries ==
    /\ last.op = "Enter"
    /\ ~last.modal
    /\ app.focused_panel = "Paths"
    /\ app.paths = <<>>
    /\ ~app.show_modal

\* C37: with the modal closed and the focus in Paths or Preview, characters,
\* Backspace, Left and Right leave the query, its cursor, the filtered list
\* and the selected row as they are; Enter in Preview leaves the navigator
\* and the store as they are.
C37_InapplicableKeys ==
    [][(last'.op \in {"Char", "Backspace", "Left", "Right", "Enter"} /\ NormalEvent) =>
          /\ (app.focused_panel \in {"Paths", "Preview"}
                /\ \/ last'.op \in {"Backspace", "Left", "Right"}
                   \/ \E c \in PlainChars : PressChar(c, TuiLimits)) =>
                /\ app'.input = app.input
                /\ app'.input_cursor = app.input_cursor
                /\ app'.filtered_indices = app.filtered_indices
                /\ app'.selected = app.selected
          /\ (last'.op = "Enter" /\ app.focused_panel = "Preview") =>
                /\ app' = app
                /\ config' = config
                /\ file' = file
                /\ pc' = "running"]_vars

\* Left was pressed in Paths with the cursor behind a query that matches a
\* label
C37_Witness ==
    /\ last.op = "Left"
    /\ ~last.modal
    /\ app.focused_panel = "Paths"
    /\ app.input # <<>>
    /\ app.input_cursor = Len(app.input)
    /\ app.filtered_indices # <<>>

\* Enter was pressed in Preview with the preview scrolled
C37_WitnessEnter ==
    /\ last.op = "Enter"
    /\ ~last.modal
    /\ app.focused_panel = "Preview"
    /\ app.preview_scroll > 0
    /\ ~app.should_quit

\* the drafts of the open modal are what open_modal put there
Unedited(a) ==
    /\ a.modal_persist_value = a.modal_original_persist
    /\ a.modal_tags_input = a.modal_original_tags

\* the entry of the selected row has the persist flag and the tags it had
SameEntry ==
    LET i == FindIdx(config.paths, SelectedPath(app))
    IN /\ i # 0
       /\ config'.paths[i].persist = config.paths[i].persist
       /\ config'.paths[i].tags = config.paths[i].tags

\* a tag that is not empty, holds no comma and neither starts nor ends with
\* a blank
PlainTag(tag) ==
    /\ tag # <<>>
    /\ \A k \in 1..Len(tag) : tag[k] # ","
    /\ tag[1] # " "
    /\ tag[Len(tag)] # " "

\* C38 as stated: Enter in a modal whose drafts were not edited leaves the
\* persist flag and the tags of the entry as they were, whatever tags the
\* store holds for it.
C38_OpenConfirmIdentityAlways ==
    [][(ModalKey("Enter") /\ Unedited(app)) => SameEntry]_vars

\* C38: Enter in a modal whose drafts were not edited leaves the persist
\* flag and the tags of the entry as they were, when none of its tags is
\* empty, holds a comma or starts or ends with a blank.
C38_OpenConfirmIdentity ==
    [][(ModalKey("Enter") /\ Unedited(app)
          /\ LET i == FindIdx(config.paths, SelectedPath(app))
             IN \A k \in 1..Len(config.paths[i].tags) :
                   PlainTag(config.paths[i].tags[k])) => SameEntry]_vars

\* Enter was pressed in the unedited modal of an entry with a plain tag and
\* a tag with a blank inside
C38_Witness ==
    /\ last.op = "Enter"
    /\ last.modal
    /\ last.result = "Ok"
    /\ ~app.show_modal
    /\ app.modal_tags_input = <<"c", ",", " ", "c", " ", "x">>
    /\ Unedited(app)
    /\ config.paths[1].persist
    /\ config.paths[1].tags = << <<"c">>, <<"c", " ", "x">> >>

\* C39: in every state of the session, the modal open or closed, the cursor
\* of the query is between 0 and the length of the query and the cursor of
\* the tags draft is between 0 and the length of the tags draft.
C39_CursorBounds ==
    /\ app.input_cursor \in 0..Len(app.input)
    /\ app.modal_tags_cursor \in 0..Len(app.modal_tags_input)

\* the entry the store holds for the path of row i of the list
RowEntry(i) == config.paths[FindIdx(config.paths, app.paths[i])]

\* the entries the session lists: all of them, or those with the tag of the
\* filter
Snapshot ==
    { e \in { config.paths[k] : k \in 1..Len(config.paths) } :
         app.tag_filter.some => \E t \in 1..Len(e.tags) : e.tags[t] = app.tag_filter.tag }

\* C40: at the start of the session the list holds the path of every entry
\* of the store, or of every entry with the tag of the filter, once each;
\* while the loop runs a row with a higher access count, or with the same
\* count and a later selection, is never below another; the labels are as
\* many as the paths; and no step, a confirmed modal included, changes the
\* list or the labels.
C40_ListOrderAndImmutability ==
    [][pc = "running" =>
          /\ last.op = "start" =>
                /\ { app.paths[i] : i \in 1..Len(app.paths) } = { e.path : e \in Snapshot }
                /\ Len(app.paths) = Cardinality(Snapshot)
          /\ \A i \in 1..Len(app.paths) : \A j \in (i + 1)..Len(app.paths) :
                \/ RowEntry(i).access_count > RowEntry(j).access_count
                \/ /\ RowEntry(i).access_count = RowEntry(j).access_count
                   /\ RowEntry(i).last_selected >= RowEntry(j).last_selected
          /\ Len(app.display_paths) = Len(app.paths)
          /\ app'.paths = app.paths
          /\ app'.display_paths = app.display_paths]_vars

\* in a session filtered by tag c, Enter in the modal took the tag from the
\* entry of the first row, which is still listed
C40_Witness ==
    /\ last.op = "Enter"
    /\ last.modal
    /\ last.result = "Ok"
    /\ app.tag_filter = TagFilter(TagC)
    /\ Len(app.paths) = 2
    /\ app.paths[1] = PathHP
    /\ RowEntry(1).tags = <<>>
    /\ RowEntry(1) \notin Snapshot

TypeOK == pc \in {"api", "load", "start", "running", "quit", "returned", "aborted"}
====
